---- MODULE Spec2Model ----
(***************************************************************************)
(* State-machine model of the 3d-portfolio front end:                      *)
(*   - the scroll transform engine of js/main.js (updateTargetProgress,    *)
(*     animateBrain, the scroll / resize listeners, the load-time snap),   *)
(*   - the strict section scrolling of js/main.js (the wheel listener,     *)
(*     its 800 ms timer, the overlay's 'no-scroll' class),                 *)
(*   - the pointer interaction controller of js/brain-hero.js              *)
(*     (onMouseDown, onMouseMove, onMouseUp, onClick),                     *)
(*   - the neural-network simulation of js/brain-hero.js                   *)
(*     (generateNeuralNetwork, spawnSignal, animate,                       *)
(*     updateSimulationParams).                                            *)
(*                                                                         *)
(* Numbers.  JavaScript numbers are modelled in fixed point.  A progress   *)
(* value p is held as the integer p * Scale; a pixel length l of the       *)
(* viewport rectangle as l * Scale; a signal progress as ten-thousandths;  *)
(* a signal speed as tenths; a 3D coordinate or a distance parameter of    *)
(* the simulation as tenths.  Products and quotients round to the nearest  *)
(* unit, as the floating-point operations round to the nearest double.     *)
(***************************************************************************)
EXTENDS Integers, Sequences, FiniteSets, TLC

VARIABLES
    \* ---- js/main.js, scroll transform engine
    scrollY,            \* window.scrollY (pixels)
    heroHeight,         \* hero.offsetHeight (pixels)
    innerWidth,         \* window.innerWidth (pixels)
    innerHeight,        \* window.innerHeight (pixels)
    targetProgress,     \* let targetProgress (times Scale)
    currentProgress,    \* let currentProgress (times Scale)
    brainModeMini,      \* document.body.classList.contains('brain-mode-mini')
    \* ---- js/brain-hero.js, pointer interaction and highlighting
    currentViewport,    \* let currentViewport {x, y, width, height} (times Scale)
    mouseDownPos,       \* let mouseDownPos (pixels)
    isDragging,         \* let isDragging
    currentActiveSection, \* let currentActiveSection
    material,           \* child.material of every region mesh of brainGroup
    previousMousePosition, \* let previousMousePosition (pixels)
    rotationVelocity,   \* let rotationVelocity {x, y} (rotationSpeed radians, in hundredths)
    dragRotation,       \* what drags and inertia added to brainPivot.rotation {x, y} (same unit)
    hoveredObject,      \* let hoveredObject: "null" or the name of a region mesh
    isHoveringMiniBrain, \* let isHoveringMiniBrain
    \* ---- js/main.js, wheel section scrolling
    isAnimating,        \* let isAnimating
    lastAbsDelta,       \* let lastAbsDelta
    timers,             \* pending setTimeout(..., 800) callbacks of the wheel listener
    noScroll,           \* document.body.classList.contains('no-scroll')
    ariaHidden,         \* projectOverlay.getAttribute('aria-hidden') === 'true'
    containerHidden,    \* brainContainer.style.visibility === 'hidden'
    \* ---- js/main.js, settings panel
    inputs,             \* the sliders: for each key, whether it was moved and its value
    debounceTimeout,    \* the setTimeout(..., 300) of debouncedUpdate that is pending
    \* ---- js/brain-hero.js, network simulation
    loadStatus,         \* GLTFLoader.load: "pending", "loaded" or "failed"
    brainGroup,         \* let brainGroup: "none" until the model is loaded, else its meshes
    simulationParams,   \* let simulationParams
    nodes,              \* let nodes: sequence of [position, neighbors, validPosition]
    signals,            \* let signals: sequence of signal records, Empty for a hole
    drawables,          \* which of nodeParticles, connectionLines, signalParticles are set
    gpu,                \* live geometries, materials, textures the simulation allocated
    \* ---- the environment and what the last handler did
    mouseEvent,         \* the mouse event the last handler received (type "none": it got none)
    dispatched,         \* calls, window events and console lines of the last handler, in order
    inputEvents,        \* scroll and resize events delivered so far
    moves,              \* 'mousemove' events delivered so far
    clock,               \* the time (ms since the page was loaded)
    lastRaycast,        \* history: whether onMouseMove cast a ray, and when it last did
    intersecting,       \* sectionObserver: the sections last reported with isIntersecting
    frames              \* animateBrain frames since targetProgress was last assigned

scrollVars == <<scrollY, heroHeight, innerWidth, innerHeight, targetProgress,
                currentProgress, brainModeMini>>
pointerVars == <<currentViewport, mouseDownPos, isDragging, currentActiveSection, material>>
dragVars == <<previousMousePosition, rotationVelocity, dragRotation, hoveredObject,
              isHoveringMiniBrain>>
overlayVars == <<noScroll, ariaHidden, containerHidden>>
wheelVars == <<isAnimating, lastAbsDelta, timers, overlayVars>>
settingsVars == <<inputs, debounceTimeout>>
browserVars == <<moves, clock, lastRaycast, intersecting>>
netVars == <<loadStatus, brainGroup, simulationParams, nodes, signals, drawables, gpu>>
envVars == <<mouseEvent, dispatched, inputEvents, frames>>
vars == <<scrollVars, pointerVars, dragVars, wheelVars, settingsVars, netVars, envVars,
          browserVars>>

-----------------------------------------------------------------------------
(* Arithmetic helpers *)

Max(a, b) == IF a >= b THEN a ELSE b
Min(a, b) == IF a <= b THEN a ELSE b
Abs(a) == IF a >= 0 THEN a ELSE -a

\* a / b for b > 0, rounded to the nearest integer (half away from zero)
RoundDiv(a, b) ==
    IF a >= 0 THEN (2 * a + b) \div (2 * b) ELSE -((2 * (-a) + b) \div (2 * b))

\* fixed-point resolution: one unit of progress is 1 / Scale
Resolution == 5
Scale == 2000 * Resolution

-----------------------------------------------------------------------------
(* Configuration (the config object main.js and brain-hero.js import) *)

\* config.miniBrain.targetProgressThreshold = 0.85
targetProgressThreshold == (85 * Scale) \div 100
\* config.miniBrain.minSize / maxSize / position (desktop values)
minSize == 250
maxSize == 400
offsetX == 30
offsetY == -110
anchorX == "right"
anchorY == "top"

\* Math.abs(diff) < 0.0005 in animateBrain
SnapEpsilon == (5 * Scale) \div 10000

-----------------------------------------------------------------------------
(* Input sets *)

\* scroll offsets the browser reports (negative: rubber-band overscroll)
ScrollYs == {-50, 378, 588, 602}
\* window.innerWidth, window.innerHeight and hero.offsetHeight after a layout
Layouts == {<<1920, 1080, 1080>>, <<1200, 800, 1000>>, <<1200, 800, 0>>}
\* scroll offsets at page load (a reload keeps the scroll position)
InitialScrollYs == {0, 2000}
\* scroll and resize events per behaviour
MaxInputEvents == 2
MaxUpdates == 1
\* 'mousemove' events delivered in one run
MaxMoves == 1
\* the frame counter saturates here
FrameCap == 80

-----------------------------------------------------------------------------
(* js/main.js: scroll transform engine *)

\* scrollY / (Math.max(heroHeight, 1) * 0.7), times Scale
ScrollRatio(y, h) == RoundDiv(y * 10 * Scale, Max(h, 1) * 7)

\* mutant: the Math.max(targetProgress, 0) line is missing
updateTargetProgress_NoFloor(y, h) == Min(ScrollRatio(y, h), Scale)

\* mutant: the transition completes at 100% of the hero height, not 70%
updateTargetProgress_FullHero(y, h) == Max(Min(RoundDiv(y * Scale, Max(h, 1)), Scale), 0)

\* updateTargetProgress: the value it assigns to targetProgress
updateTargetProgress(y, h) == Max(Min(ScrollRatio(y, h), Scale), 0)

\* diff * 0.1
LerpStep(diff) == RoundDiv(diff, 10)

\* mutant: the snap branch is missing
advanceProgress_NoSnap(current, target) == current + LerpStep(target - current)

\* animateBrain: the value it assigns to currentProgress
advanceProgress(current, target) ==
    LET diff == target - current
    IN  IF Abs(diff) < SnapEpsilon THEN target ELSE current + LerpStep(diff)

\* mutant: the rectangle never leaves the full window
ViewportRect_FullWindow(t, w, h) ==
    [x |-> 0, y |-> 0, width |-> w * Scale, height |-> h * Scale]

\* animateBrain, rectangle derivation: the rectangle handed to updateBrainViewport
\* for progress t (times Scale) in a w x h window; every field is in pixels times Scale
ViewportRect(t, w, h) ==
    LET startW == w
        startH == h
        startBrainCenterX == w \div 2
        startBrainCenterY == h \div 2
        endSize == Max(Min(maxSize, w \div 4), minSize)
        desiredBrainX == IF anchorX = "left"
                         THEN (endSize \div 2) + offsetX
                         ELSE w - (endSize \div 2) + offsetX
        desiredBrainY == IF anchorY = "bottom"
                         THEN h - (endSize \div 2) + offsetY
                         ELSE (endSize \div 2) + offsetY
        currentW == startW * Scale + (endSize - startW) * t
        currentH == startH * Scale + (endSize - startH) * t
        currentBrainCenterX == startBrainCenterX * Scale + (desiredBrainX - startBrainCenterX) * t
        currentBrainCenterY == startBrainCenterY * Scale + (desiredBrainY - startBrainCenterY) * t
        currentTop == currentBrainCenterY - currentH \div 2
        currentLeft == currentBrainCenterX - currentW \div 2
    IN  [x |-> currentLeft, y |-> currentTop, width |-> currentW, height |-> currentH]

\* mutant: the mode follows the smoothed currentProgress
ModeAfterFrame_FromCurrent(target) == currentProgress >= targetProgressThreshold

\* animateBrain, mode toggle: the new presence of the body class 'brain-mode-mini'
ModeAfterFrame(target) == target >= targetProgressThreshold

-----------------------------------------------------------------------------
(* js/brain-hero.js: region meshes and their highlighting *)

\* config.brainMapping.sections (mesh names without their _BRAIN_TEXTURE_blinn2_0 suffix)
brainSectionMap(name) ==
    CASE name = "Brain_Part_06" -> "section-projects"
      [] name = "Brain_Part_04" -> "section-experience"
      [] name = "Brain_Part_02" -> "section-skills-labs"
      [] name = "Brain_Part_05" -> "section-profile"
      [] OTHER -> "undefined"

\* the highlightColor chain of if / else if on the section id
highlightColor(sectionId) ==
    CASE sectionId = "section-projects" -> "projects"
      [] sectionId = "section-experience" -> "experience"
      [] sectionId = "section-skills-labs" -> "skills"
      [] sectionId = "section-profile" -> "profile"
      [] OTHER -> "default"

\* the material a region gets from the loader callback (MeshPhysicalMaterial:
\* opacity 0.15, colour 0x00ffff, three.js defaults emissive black, intensity 1);
\* opacities are in hundredths, intensities in tenths
GlassMaterial ==
    [opacity |-> 15, color |-> "cyan", emissive |-> "black", emissiveIntensity |-> 10]

\* "Reset to base state"
BaseMaterial(brainOpacity) ==
    [opacity |-> brainOpacity, color |-> "cyan", emissive |-> "black", emissiveIntensity |-> 0]

\* the active-section highlight of updateActiveSectionHighlight
ActiveMaterial(brainOpacity, sectionId) ==
    [opacity |-> Min(brainOpacity + 35, 80), color |-> highlightColor(sectionId),
     emissive |-> highlightColor(sectionId), emissiveIntensity |-> 4]

\* resetAllBrainHighlights
resetAllBrainHighlights ==
    IF brainGroup = "none" THEN material
    ELSE [n \in DOMAIN material |-> BaseMaterial(simulationParams.brainOpacity)]

\* mutant: outside mini mode the regions keep their highlight
updateActiveSectionHighlight_SkipsReset(sectionId, mini) ==
    IF brainGroup = "none" THEN <<currentActiveSection, material>>
    ELSE IF ~mini THEN <<sectionId, material>>
    ELSE <<sectionId,
           [n \in DOMAIN material |->
              IF sectionId # "null" /\ brainSectionMap(n) = sectionId
              THEN ActiveMaterial(simulationParams.brainOpacity, sectionId)
              ELSE BaseMaterial(simulationParams.brainOpacity)]>>

\* updateActiveSectionHighlight(sectionId): <<currentActiveSection, material>> after
\* the call, with the body class 'brain-mode-mini' present iff mini
updateActiveSectionHighlight(sectionId, mini) ==
    IF brainGroup = "none" THEN <<currentActiveSection, material>>
    ELSE IF ~mini THEN <<sectionId, resetAllBrainHighlights>>
    ELSE <<sectionId,
           [n \in DOMAIN material |->
              IF sectionId # "null" /\ brainSectionMap(n) = sectionId
              THEN ActiveMaterial(simulationParams.brainOpacity, sectionId)
              ELSE BaseMaterial(simulationParams.brainOpacity)]>>

-----------------------------------------------------------------------------
(* js/brain-hero.js: the neural-network simulation *)

\* brain models the loader may deliver: each mesh has a name, a surface area and
\* the surface points MeshSurfaceSampler can return (coordinates in tenths)
OneMeshModel ==
    << [name |-> "Brain_Part_06", area |-> 4, points |-> {<<0, 0, 0>>, <<2, 0, 0>>}] >>
TwoMeshModel ==
    << [name |-> "Brain_Part_06", area |-> 3, points |-> {<<0, 0, 0>>, <<2, 0, 0>>}],
       [name |-> "Brain_Part_01", area |-> 1, points |-> {<<5, 0, 0>>}] >>
NoMeshModel == << >>
BrainModels == {OneMeshModel, TwoMeshModel, NoMeshModel}

\* Math.random() * 0.5 in a signal's speed, in tenths: the draws kept here (the
\* lower end of the range; no step of the simulation branches on the addend)
RandomSpeeds == {0}

\* const maxAttempts = 30 in generateNeuralNetwork
maxAttempts == 30
\* const delta = 0.016 in animate, in thousandths
delta == 16
\* sig.progress = 1.0, in ten-thousandths
ProgressOne == 10 * 1000

\* signals[i] === undefined
Empty == [slot |-> "empty"]

\* a.distanceTo(b) < d, for coordinates and d in tenths
DistanceSq(a, b) ==
    (a[1] - b[1]) * (a[1] - b[1]) + (a[2] - b[2]) * (a[2] - b[2])
      + (a[3] - b[3]) * (a[3] - b[3])
CloserThan(a, b, d) == d > 0 /\ DistanceSq(a, b) < d * d

\* Math.round(simulationParams.nodeCount * (meshAreas[index] / totalArea));
\* a zero total area gives NaN and the sampling loop does not run
RECURSIVE TotalArea(_, _)
TotalArea(meshes, m) ==
    IF m > Len(meshes) THEN 0 ELSE meshes[m].area + TotalArea(meshes, m + 1)

\* mutant: the share of a mesh is rounded down
countForMesh_Floor(meshes, m, nodeCount) ==
    IF TotalArea(meshes, 1) = 0 THEN 0
    ELSE (nodeCount * meshes[m].area) \div TotalArea(meshes, 1)

countForMesh(meshes, m, nodeCount) ==
    LET totalArea == TotalArea(meshes, 1)
    IN  IF totalArea = 0 THEN 0
        ELSE (2 * nodeCount * meshes[m].area + totalArea) \div (2 * totalArea)

\* mutant: every sample passes the distance test
AcceptedPositions_NoCheck(earlier, mesh, minDistance) ==
    {[position |-> q, validPosition |-> TRUE] : q \in mesh.points}

\* the rejection-sampling loop for one node: the samples it can end with, each
\* with the validPosition flag the loop leaves.  It ends with validPosition (a
\* sample at least minDistance from every earlier node) or with
\* attempts = maxAttempts and the last, rejected, sample.
AcceptedPositions(earlier, mesh, minDistance) ==
    LET valid(q) ==
          \A k \in 1..Len(earlier) : ~CloserThan(q, earlier[k].position, minDistance)
    IN  {[position |-> q, validPosition |-> TRUE] : q \in {r \in mesh.points : valid(r)}}
          \cup {[position |-> q, validPosition |-> FALSE] :
                  q \in {r \in mesh.points : ~valid(r) /\ maxAttempts > 0}}

\* step 1 of generateNeuralNetwork: every list of samples it can produce
RECURSIVE SampleNodes(_, _, _, _, _)
SampleNodes(meshes, m, i, earlier, params) ==
    IF m > Len(meshes) THEN {earlier}
    ELSE IF i >= countForMesh(meshes, m, params.nodeCount)
         THEN SampleNodes(meshes, m + 1, 0, earlier, params)
    ELSE UNION { SampleNodes(meshes, m, i + 1, Append(earlier, q), params) :
                 q \in AcceptedPositions(earlier, meshes[m], params.minNodeDistance) }

\* mutant: the edge is recorded at node i only
RECURSIVE ConnectNodes_OneWay(_, _, _, _, _)
ConnectNodes_OneWay(neighbors, positions, i, j, connectionDistance) ==
    IF i > Len(positions) THEN neighbors
    ELSE IF j > Len(positions)
         THEN ConnectNodes_OneWay(neighbors, positions, i + 1, i + 2, connectionDistance)
    ELSE IF CloserThan(positions[i], positions[j], connectionDistance)
         THEN ConnectNodes_OneWay([neighbors EXCEPT ![i] = Append(@, j)],
                                  positions, i, j + 1, connectionDistance)
    ELSE ConnectNodes_OneWay(neighbors, positions, i, j + 1, connectionDistance)

\* step 3 of generateNeuralNetwork: the nested loops over i < j that push j to
\* nodes[i].neighbors and i to nodes[j].neighbors (indices are 1-based here)
RECURSIVE ConnectNodes(_, _, _, _, _)
ConnectNodes(neighbors, positions, i, j, connectionDistance) ==
    IF i > Len(positions) THEN neighbors
    ELSE IF j > Len(positions)
         THEN ConnectNodes(neighbors, positions, i + 1, i + 2, connectionDistance)
    ELSE IF CloserThan(positions[i], positions[j], connectionDistance)
         THEN ConnectNodes([neighbors EXCEPT ![i] = Append(@, j), ![j] = Append(@, i)],
                           positions, i, j + 1, connectionDistance)
    ELSE ConnectNodes(neighbors, positions, i, j + 1, connectionDistance)

\* the nodes array for a list of samples; validPosition is not a field of the
\* program's node objects: it keeps the flag the sampling loop ended with
NodesAt(samples, connectionDistance) ==
    LET positions == [k \in 1..Len(samples) |-> samples[k].position]
        neighbors == ConnectNodes([k \in 1..Len(samples) |-> << >>], positions, 1, 2,
                                  connectionDistance)
    IN  [k \in 1..Len(samples) |->
           [position |-> positions[k], neighbors |-> neighbors[k],
            validPosition |-> samples[k].validPosition]]

\* sig.currentPos.lerpVectors(pathStart, pathEnd, progress), times ProgressOne
lerpVectors(a, b, progress) ==
    [k \in 1..3 |-> a[k] * ProgressOne + (b[k] - a[k]) * progress]

\* the signal spawnSignal builds for start node s, its n-th neighbour and random r
NewSignal(nds, s, n, r, signalSpeed) ==
    [currentPos |-> lerpVectors(nds[s].position, nds[s].position, 0),
     targetNodeIdx |-> nds[s].neighbors[n],
     pathStart |-> nds[s].position,
     pathEnd |-> nds[nds[s].neighbors[n]].position,
     progress |-> 0,
     speed |-> r + signalSpeed]

\* mutant: spawnSignal may give up although every node has a neighbour
spawnSignal_MayGiveUp(nds, old, signalSpeed) ==
    {old} \cup UNION { { NewSignal(nds, s, n, r, signalSpeed) :
                           n \in 1..Len(nds[s].neighbors), r \in RandomSpeeds } :
                       s \in {k \in 1..Len(nds) : Len(nds[k].neighbors) > 0} }

\* spawnSignal(index): what signals[index] can be afterwards, old being its value
\* before.  The start node is redrawn up to 100 times while it has no neighbour;
\* the function returns without assigning when there is no node, or when the
\* last draw is still a node without neighbours.
spawnSignal(nds, old, signalSpeed) ==
    LET connected == {k \in 1..Len(nds) : Len(nds[k].neighbors) > 0}
        isolated == {k \in 1..Len(nds) : Len(nds[k].neighbors) = 0}
    IN  UNION { { NewSignal(nds, s, n, r, signalSpeed) :
                    n \in 1..Len(nds[s].neighbors), r \in RandomSpeeds } : s \in connected }
          \cup (IF Len(nds) = 0 \/ isolated # {} THEN {old} ELSE {})

\* every sequence whose i-th element is drawn from choices[i]
SequencesOf(choices) ==
    LET all == UNION {choices[i] : i \in DOMAIN choices}
    IN  {q \in [DOMAIN choices -> all] : \A i \in DOMAIN choices : q[i] \in choices[i]}

\* generateNeuralNetwork(group): the <<nodes, signals>> it can leave behind.
\* nodes and signals are emptied first; with no mesh to sample it returns there.
generateNeuralNetwork(group, params) ==
    IF Len(group) = 0 THEN { << << >>, << >> >> }
    ELSE UNION {
           LET nds == NodesAt(positions, params.connectionDistance)
           IN  { <<nds, sigs>> :
                   sigs \in SequencesOf([i \in 1..params.signalCount |->
                                           spawnSignal(nds, Empty, params.signalSpeed)]) } :
           positions \in SampleNodes(group, 1, 0, << >>, params) }

\* mutant: on arrival the signal keeps its old targetNodeIdx
ArriveAt_StaleTarget(nds, sig, m) ==
    [sig EXCEPT !.pathStart = nds[sig.targetNodeIdx].position,
                !.pathEnd = nds[m].position,
                !.progress = 0]

\* mutant: on arrival the signal keeps its old pathStart
ArriveAt_KeepStart(nds, sig, m) ==
    [sig EXCEPT !.pathEnd = nds[m].position,
                !.targetNodeIdx = m,
                !.progress = 0]

\* animate, "Continue journey": the signal after it arrived and chose neighbour m
ArriveAt(nds, sig, m) ==
    [sig EXCEPT !.pathStart = nds[sig.targetNodeIdx].position,
                !.pathEnd = nds[m].position,
                !.targetNodeIdx = m,
                !.progress = 0]

\* sig.currentPos.lerpVectors(sig.pathStart, sig.pathEnd, sig.progress)
Interpolated(sig) ==
    [sig EXCEPT !.currentPos = lerpVectors(sig.pathStart, sig.pathEnd, sig.progress)]

\* animate, body of the loop over the signals: what signals[i] can be afterwards
AdvanceSignal(nds, sig, signalSpeed) ==
    IF sig = Empty THEN {Empty}
    ELSE LET moved == [sig EXCEPT !.progress = sig.progress + (sig.speed * delta)]
             currentNode == nds[moved.targetNodeIdx]
         IN  IF moved.progress >= ProgressOne
             THEN IF Len(currentNode.neighbors) > 0
                  THEN { Interpolated(ArriveAt(nds, moved, currentNode.neighbors[n])) :
                           n \in 1..Len(currentNode.neighbors) }
                  ELSE spawnSignal(nds, Interpolated(moved), signalSpeed)
             ELSE { Interpolated(moved) }

\* mutant: the signal loop has no guard on the node list; a slot whose signal
\* is missing is respawned
UpdateSignals_NoGuard(nds, sigs, params) ==
    SequencesOf([i \in 1..params.signalCount |->
                   IF nds = << >> THEN {[slot |-> "respawned"]}
                   ELSE IF i <= Len(sigs)
                        THEN AdvanceSignal(nds, sigs[i], params.signalSpeed)
                        ELSE {Empty}])

\* animate, "2. Update Signals": the signals array it can leave behind
\* (slots at or beyond simulationParams.signalCount are not visited)
UpdateSignals(nds, sigs, params) ==
    IF Len(nds) = 0 THEN {sigs}
    ELSE SequencesOf([i \in 1..Len(sigs) |->
                        IF i <= params.signalCount
                        THEN AdvanceSignal(nds, sigs[i], params.signalSpeed)
                        ELSE {sigs[i]}])

\* simulationParams = { ...simulationParams, ...newParams }
MergeParams(params, newParams) ==
    [k \in DOMAIN params \cup DOMAIN newParams |->
       IF k \in DOMAIN newParams THEN newParams[k] ELSE params[k]]

\* mutant: signalSpeed is taken for a structural key
StructuralKeys_WithSpeed ==
    {"nodeCount", "minNodeDistance", "connectionDistance", "signalCount", "signalSpeed"}

\* the keys whose presence makes updateSimulationParams rebuild the network
StructuralKeys == {"nodeCount", "minNodeDistance", "connectionDistance", "signalCount"}

\* "Update speed immediately for existing signals": the signals it can leave
RespeedSignals(sigs, signalSpeed) ==
    SequencesOf([i \in 1..Len(sigs) |->
                   IF sigs[i] = Empty THEN {Empty}
                   ELSE { [sigs[i] EXCEPT !.speed = r + signalSpeed] : r \in RandomSpeeds }])

-----------------------------------------------------------------------------
(* js/main.js: handlers of the scroll transform engine *)

\* an entry of dispatched: a console line or a dispatched event with its argument
Logged(type, text, arg) == [type |-> type, text |-> text, arg |-> arg]

\* the handler was not a mouse listener
NoMouseEvent == [type |-> "none", clientX |-> 0, clientY |-> 0, hit |-> "none"]

\* window 'scroll' listener: updateTargetProgress.  (Its first line returns when
\* the body carries 'mobile-view'; nothing in the sources adds that class.)
ScrollEvent(y) ==
    /\ inputEvents < MaxInputEvents
    /\ scrollY' = y
    /\ targetProgress' = updateTargetProgress(y, heroHeight)
    /\ inputEvents' = inputEvents + 1
    /\ frames' = 0
    /\ dispatched' = <<>>
    /\ UNCHANGED <<heroHeight, innerWidth, innerHeight, currentProgress, brainModeMini>>
    /\ mouseEvent' = NoMouseEvent
    /\ UNCHANGED <<pointerVars, dragVars, wheelVars, settingsVars, browserVars, netVars>>

\* window 'resize' listener: updateTargetProgress(); currentProgress = targetProgress
ResizeEvent(layout) ==
    LET target == updateTargetProgress(scrollY, layout[3])
    IN  /\ innerWidth' = layout[1]
        /\ innerHeight' = layout[2]
        /\ heroHeight' = layout[3]
        /\ targetProgress' = target
        /\ currentProgress' = target
        /\ frames' = 0
        /\ dispatched' = <<>>
        /\ inputEvents < MaxInputEvents
        /\ inputEvents' = inputEvents + 1
        /\ UNCHANGED <<scrollY, brainModeMini>>
        /\ mouseEvent' = NoMouseEvent
    /\ UNCHANGED <<pointerVars, dragVars, wheelVars, settingsVars, browserVars, netVars>>

\* animateBrain: one requestAnimationFrame callback
AnimateBrainFrame ==
    LET current == advanceProgress(currentProgress, targetProgress)
        wasInMiniMode == brainModeMini
        mini == ModeAfterFrame(targetProgress)
        cleared == updateActiveSectionHighlight("null", mini)
    IN  /\ currentProgress' = current
        /\ currentViewport' = ViewportRect(current, innerWidth, innerHeight)
        /\ brainModeMini' = mini
        /\ IF ~mini /\ wasInMiniMode
           THEN /\ currentActiveSection' = cleared[1]
                /\ material' = cleared[2]
           ELSE UNCHANGED <<currentActiveSection, material>>
        /\ frames' = Min(frames + 1, FrameCap)
        /\ dispatched' = <<>>
        /\ UNCHANGED <<scrollY, heroHeight, innerWidth, innerHeight, targetProgress>>
        /\ mouseEvent' = NoMouseEvent
        /\ UNCHANGED <<mouseDownPos, isDragging, dragVars, wheelVars, settingsVars, browserVars, netVars, inputEvents>>

\* const inputs = {...}: the keys of the settings sliders
SliderKeys ==
    {"nodeCount", "connectionDistance", "signalCount", "signalSpeed", "signalSize",
     "networkOpacity", "signalOpacity", "brainOpacity", "brainSize", "rotationSpeedX",
     "rotationSpeedY", "menuGap"}

\* a slider no 'input' event has come from
NotMoved == [moved |-> FALSE, value |-> 0]

\* let timeout of debounce with no call pending
NoTimeout == [pending |-> FALSE, key |-> "", value |-> 0]

\* mutant: the page load always snaps
LoadSnap_Always(target) == target

\* "Immediate state check on load": currentProgress before the first frame
LoadSnap(target) == IF target > Scale \div 10 THEN target ELSE 0

\* DOMContentLoaded on a desktop page loaded at scroll offset y: module state of
\* brain-hero.js, initBrain(), updateTargetProgress(), the snap of currentProgress
\* when targetProgress > 0.1, and the first animateBrain() call
InitPage(layout, y, params) ==
    LET target == updateTargetProgress(y, layout[3])
        snapped == LoadSnap(target)
        current == advanceProgress(snapped, target)
    IN  /\ scrollY = y
        /\ innerWidth = layout[1]
        /\ innerHeight = layout[2]
        /\ heroHeight = layout[3]
        /\ targetProgress = target
        /\ currentProgress = current
        /\ brainModeMini = ModeAfterFrame(target)
        /\ currentViewport = ViewportRect(current, layout[1], layout[2])
        /\ mouseDownPos = <<0, 0>>
        /\ isDragging = FALSE
        /\ previousMousePosition = <<0, 0>>
        /\ rotationVelocity = [x |-> 0, y |-> 0]
        /\ dragRotation = [x |-> 0, y |-> 0]
        /\ hoveredObject = "null"
        /\ isHoveringMiniBrain = FALSE
        /\ isAnimating = FALSE
        /\ lastAbsDelta = 0
        /\ timers = 0
        /\ noScroll = FALSE
        /\ ariaHidden = TRUE
        /\ containerHidden = FALSE
        /\ currentActiveSection = "null"
        /\ material = <<>>
        /\ loadStatus = "pending"
        /\ brainGroup = "none"
        /\ simulationParams = params
        /\ nodes = <<>>
        /\ signals = <<>>
        /\ drawables = {}
        /\ gpu = [geometries |-> 0, materials |-> 0, textures |-> 0]
        /\ mouseEvent = NoMouseEvent
        /\ dispatched = <<>>
        /\ inputEvents = 0
        /\ frames = 1
        /\ inputs = [k \in SliderKeys |-> NotMoved]
        /\ debounceTimeout = NoTimeout
        /\ moves = 0
        /\ clock = 0
        /\ lastRaycast = [cast |-> FALSE, at |-> 0]
        /\ intersecting = {}

\* config.simulation of the LOW tier, with counts a model checker can enumerate
DefaultParams ==
    [nodeCount |-> 1, minNodeDistance |-> 3, connectionDistance |-> 3, signalCount |-> 1,
     signalSpeed |-> 400, signalSize |-> 10, networkOpacity |-> 10, signalOpacity |-> 100,
     brainOpacity |-> 15, brainSize |-> 25, rotationSpeedX |-> 0, rotationSpeedY |-> 1]

\* const preset = performancePresets[deviceInfo.tier], spread into
\* config.simulation: the HIGH tier has more nodes, more signals and a longer
\* connectionDistance than the LOW tier
HighParams ==
    [DefaultParams EXCEPT !.nodeCount = 2, !.signalCount = 2, !.connectionDistance = 6]
performancePresets == {DefaultParams, HighParams}

Init ==
    \E layout \in Layouts, y \in InitialScrollYs : InitPage(layout, y, DefaultParams)

Next ==
    \/ \E y \in ScrollYs : ScrollEvent(y)
    \/ \E layout \in Layouts : ResizeEvent(layout)
    \/ AnimateBrainFrame

Spec == Init /\ [][Next]_vars

-----------------------------------------------------------------------------
(* js/brain-hero.js: loader callbacks, render loop, updateSimulationParams *)

\* let nodeParticles, connectionLines, signalParticles, in the order in which
\* generateNeuralNetwork disposes and creates them
DrawableNames == << "nodeParticles", "connectionLines", "signalParticles" >>

\* generateNeuralNetwork, "Clear existing geometry if any": the calls it makes
\* for the drawables of set, from the k-th name on
RECURSIVE DisposeCalls(_, _)
DisposeCalls(set, k) ==
    IF k > Len(DrawableNames) THEN << >>
    ELSE (IF DrawableNames[k] \in set
          THEN << Logged("call", "group.remove", DrawableNames[k]),
                  Logged("call", "geometry.dispose", DrawableNames[k]),
                  Logged("call", "material.dispose", DrawableNames[k]) >>
          ELSE << >>) \o DisposeCalls(set, k + 1)

\* generateNeuralNetwork, steps 2 to 4: the allocations and brainGroup.add calls
\* for the new drawables; none when the group has no mesh to sample
RECURSIVE CreateCalls(_, _)
CreateCalls(group, k) ==
    IF Len(group) = 0 \/ k > Len(DrawableNames) THEN << >>
    ELSE (IF k = 1 THEN << Logged("call", "createOrbTexture", << >>) >> ELSE << >>)
           \o << Logged("call", "new geometry", DrawableNames[k]),
                 Logged("call", "new material", DrawableNames[k]),
                 Logged("call", "brainGroup.add", DrawableNames[k]) >>
           \o CreateCalls(group, k + 1)

\* mutant: a build leaves signalParticles unset
DrawablesAfterBuild_NoSignals(group) ==
    IF Len(group) = 0 THEN {} ELSE {"nodeParticles", "connectionLines"}

\* the drawables set when generateNeuralNetwork(group) returns
DrawablesAfterBuild(group) ==
    IF Len(group) = 0 THEN {} ELSE {DrawableNames[k] : k \in 1..Len(DrawableNames)}

\* the live GPU resources when generateNeuralNetwork(group) returns: the
\* geometry and the material of every old drawable are disposed, the orb
\* texture their materials map is not; a build over a mesh allocates a
\* geometry and a material for each drawable and one orb texture
GpuAfterBuild(live, set, group) ==
    LET made == IF Len(group) = 0 THEN 0 ELSE Len(DrawableNames)
    IN  [geometries |-> live.geometries - Cardinality(set) + made,
         materials |-> live.materials - Cardinality(set) + made,
         textures |-> live.textures + (IF Len(group) = 0 THEN 0 ELSE 1)]

\* loader.load success callback: brainGroup = gltf.scene, glass materials on the
\* region meshes, generateNeuralNetwork(brainGroup), then the first animate()
LoadModel(group) ==
    /\ loadStatus = "pending"
    /\ loadStatus' = "loaded"
    /\ brainGroup' = group
    /\ material' = [n \in {group[m].name : m \in 1..Len(group)} |-> GlassMaterial]
    /\ \E built \in generateNeuralNetwork(group, simulationParams) :
         \E sigs \in UpdateSignals(built[1], built[2], simulationParams) :
            /\ nodes' = built[1]
            /\ signals' = sigs
    /\ drawables' = DrawablesAfterBuild(group)
    /\ gpu' = GpuAfterBuild(gpu, drawables, group)
    /\ dispatched' = DisposeCalls(drawables, 1) \o CreateCalls(group, 1)
    /\ UNCHANGED <<scrollVars, currentViewport, mouseDownPos, isDragging,
                   currentActiveSection, simulationParams, inputEvents, frames>>
    /\ UNCHANGED <<dragVars, wheelVars, settingsVars, browserVars>>
    /\ mouseEvent' = NoMouseEvent

\* loader.load error callback: console.error only
LoadError ==
    /\ loadStatus = "pending"
    /\ loadStatus' = "failed"
    /\ dispatched' = << Logged("console.error", "An error happened loading the brain model:",
                                << >>) >>
    /\ UNCHANGED <<scrollVars, pointerVars, brainGroup, simulationParams, nodes, signals,
                   drawables, gpu, inputEvents, frames>>
    /\ UNCHANGED <<dragVars, wheelVars, settingsVars, browserVars>>
    /\ mouseEvent' = NoMouseEvent

\* const friction = 0.95, in hundredths
friction == 95

\* rotationVelocity.x *= friction; rotationVelocity.y *= friction
ApplyFriction(velocity) ==
    [x |-> RoundDiv(velocity.x * friction, 100), y |-> RoundDiv(velocity.y * friction, 100)]

\* animate: one requestAnimationFrame callback of the render loop, which starts
\* in the load callback.  (Of the pivot rotation only the share of drags and
\* inertia is kept, not the steady rotationSpeed * delta; the signalParticles
\* its signal loop asks for is set whenever nodes is not empty.)
AnimateFrame ==
    /\ loadStatus = "loaded"
    /\ IF isDragging
       THEN UNCHANGED <<dragRotation, rotationVelocity>>
       ELSE /\ dragRotation' = [x |-> dragRotation.x + rotationVelocity.y,
                                y |-> dragRotation.y + rotationVelocity.x]
            /\ rotationVelocity' = ApplyFriction(rotationVelocity)
    /\ UNCHANGED <<previousMousePosition, hoveredObject, isHoveringMiniBrain, wheelVars, settingsVars, browserVars>>
    /\ \E sigs \in UpdateSignals(nodes, signals, simulationParams) : signals' = sigs
    /\ dispatched' = << >>
    /\ UNCHANGED <<scrollVars, pointerVars, loadStatus, brainGroup, simulationParams, nodes,
                   drawables, gpu, inputEvents, frames>>
    /\ mouseEvent' = NoMouseEvent

\* updateSimulationParams(newParams); its callers say what becomes of the
\* settings panel's sliders and timer
updateSimulationParams(newParams) ==
    LET params == MergeParams(simulationParams, newParams)
        structural == DOMAIN newParams \cap StructuralKeys # {}
        rebuild == structural /\ brainGroup # "none"
    IN  /\ inputEvents < MaxUpdates
        /\ inputEvents' = inputEvents + 1
        /\ simulationParams' = params
        /\ \E built \in (IF rebuild THEN generateNeuralNetwork(brainGroup, params)
                         ELSE { <<nodes, signals>> }) :
             /\ nodes' = built[1]
             /\ \E sigs \in (IF "signalSpeed" \in DOMAIN newParams
                             THEN RespeedSignals(built[2], params.signalSpeed)
                             ELSE { built[2] }) : signals' = sigs
        /\ material' = IF "brainOpacity" \in DOMAIN newParams /\ brainGroup # "none"
                       THEN [n \in DOMAIN material |->
                               [material[n] EXCEPT !.opacity = params.brainOpacity]]
                       ELSE material
        /\ dispatched' =
             << Logged("console.log", "Updating simulation params:", newParams) >>
               \o (IF ~structural THEN << >>
                   ELSE IF rebuild
                        THEN << Logged("console.log", "Rebuilding neural network...", << >>) >>
                               \o DisposeCalls(drawables, 1) \o CreateCalls(brainGroup, 1)
                        ELSE << Logged("console.warn", "Brain group not ready yet.", << >>) >>)
        /\ drawables' = IF rebuild THEN DrawablesAfterBuild(brainGroup) ELSE drawables
        /\ gpu' = IF rebuild THEN GpuAfterBuild(gpu, drawables, brainGroup) ELSE gpu
        /\ UNCHANGED <<scrollVars, currentViewport, mouseDownPos, isDragging,
                       currentActiveSection, loadStatus, brainGroup, frames>>
        /\ UNCHANGED <<dragVars, wheelVars, browserVars>>
        /\ mouseEvent' = NoMouseEvent

\* parameter objects handed to updateSimulationParams: one key as the settings
\* sliders send, several keys, and none
ParamUpdates ==
    { [nodeCount |-> 2], [minNodeDistance |-> 6], [connectionDistance |-> 6],
      [connectionDistance |-> 3], [signalCount |-> 2], [signalCount |-> 1],
      [signalSpeed |-> 600, brainOpacity |-> 60],
      [signalSpeed |-> 600, nodeCount |-> 2], [nodeCount |-> 0], << >> }

NextNet ==
    \/ \E group \in BrainModels : LoadModel(group)
    \/ LoadError
    \/ AnimateFrame
    \/ \E newParams \in ParamUpdates :
          updateSimulationParams(newParams) /\ UNCHANGED settingsVars

\* the page at rest at the top (no scroll, resize or pointer input): the
\* network simulation
InitNet == \E preset \in performancePresets : InitPage(<<1920, 1080, 1080>>, 0, preset)

SpecNet == InitNet /\ [][NextNet]_vars

-----------------------------------------------------------------------------
(* Properties of the scroll transform engine *)

\* C1: in every reachable state 0 <= targetProgress <= 1 and
\* 0 <= currentProgress <= 1, whatever the scroll offset (negative overscroll
\* included) and the hero height (0 included).
C1_ProgressBounds ==
    /\ 0 <= targetProgress /\ targetProgress <= Scale
    /\ 0 <= currentProgress /\ currentProgress <= Scale

\* an overscrolled page (negative offset) whose animation is still in flight
C1_Witness ==
    /\ scrollY < 0
    /\ frames > 0
    /\ currentProgress > 0 /\ currentProgress < Scale

\* a page whose hero has height 0, scrolled, after a frame
C1_WitnessZeroHero ==
    heroHeight = 0 /\ scrollY > 0 /\ frames > 0 /\ targetProgress = Scale

\* C2: while targetProgress is not reassigned, every step leaves target - current
\* with the same sign and no larger magnitude (no overshoot), every animateBrain
\* frame with current # target strictly shrinks the difference, once equal they
\* stay equal, and after a bounded number of frames (FrameCap) they are equal.
C2_StepTowardTarget ==
    LET d == targetProgress - currentProgress
        e == targetProgress' - currentProgress'
    IN  targetProgress' = targetProgress =>
          /\ (d >= 0 => (0 <= e /\ e <= d))
          /\ (d <= 0 => (d <= e /\ e <= 0))
          /\ (AnimateBrainFrame /\ d # 0 => Abs(e) < Abs(d))

C2_Convergence ==
    /\ [][C2_StepTowardTarget]_vars
    /\ [](frames = FrameCap => currentProgress = targetProgress)

\* one scroll to offset 602 on a page loaded at offset 0 or 2000, and FrameCap
\* frames later: currentProgress has travelled from 0 or 1 to 0.86
C2_Witness ==
    /\ inputEvents = 1 /\ scrollY = 602 /\ heroHeight = 1000
    /\ frames = FrameCap
    /\ currentProgress = targetProgress

\* C3 as stated: in every reachable state the mode is RETURN_BUTTON iff
\* targetProgress >= targetProgressThreshold.
C3_ModeTracksTargetAlways ==
    brainModeMini <=> (targetProgress >= targetProgressThreshold)

\* C3 amended: whenever an animateBrain frame has run since targetProgress was
\* last assigned, the mode is RETURN_BUTTON iff targetProgress >= threshold,
\* whatever currentProgress is.
C3_ModeTracksTargetAfterFrame ==
    frames > 0 => (brainModeMini <=> (targetProgress >= targetProgressThreshold))

\* target 0.84 then 0.86 (hero height 1000, offsets 588 then 602): after the
\* frame that follows the second scroll the mode is RETURN_BUTTON while
\* currentProgress is still below the threshold
C3_Witness ==
    /\ heroHeight = 1000 /\ scrollY = 602 /\ inputEvents = 2
    /\ frames = 1
    /\ brainModeMini
    /\ currentProgress < targetProgressThreshold

\* C9: targetProgress is clamp(scrollY / (max(heroHeight, 1) * 0.7), 0, 1) of the
\* current scroll offset and hero height alone; hero height 1080 and offset 378
\* give 0.5.
C9_TargetIsFunctionOfLastScroll ==
    /\ targetProgress =
         IF scrollY <= 0 THEN 0
         ELSE IF scrollY * 10 >= Max(heroHeight, 1) * 7 THEN Scale
         ELSE RoundDiv(scrollY * 10 * Scale, Max(heroHeight, 1) * 7)
    /\ (heroHeight = 1080 /\ scrollY = 378 => 2 * targetProgress = Scale)

\* offset 378 on the 1080 hero as the second input event, frames having run
\* since the first one
C9_Witness ==
    /\ heroHeight = 1080 /\ scrollY = 378 /\ inputEvents = 2
    /\ 2 * targetProgress = Scale
    /\ currentProgress # 0 /\ currentProgress # targetProgress

-----------------------------------------------------------------------------
(* js/brain-hero.js: mouse listeners *)

\* clientX, clientY of the mouse events
PointerPositions ==
    {<<100, 100>>, <<102, 101>>, <<103, 104>>, <<120, 100>>, <<1600, 100>>, <<1602, 101>>}

\* the page as first painted at the top, part of the way and past the hero
PointerScrollYs == {0, 378, 2000}

\* intersects[0].object.name for the ray through the pointer: a region mesh of
\* brainGroup, or "none" when intersects is empty
RayHits ==
    {"none"} \cup (IF loadStatus = "loaded"
                   THEN {brainGroup[m].name : m \in 1..Len(brainGroup)} ELSE {})

\* if (distance < 5) in onMouseUp
clickDistance == 5

\* mutant: a gesture of exactly the threshold counts as a click
IsClick_Inclusive(down, up) ==
    (down[1] - up[1]) * (down[1] - up[1]) + (down[2] - up[2]) * (down[2] - up[2])
      <= clickDistance * clickDistance

\* mouseDownPos.distanceTo(mouseUpPos) < 5, compared on the squares
IsClick(down, up) ==
    (down[1] - up[1]) * (down[1] - up[1]) + (down[2] - up[2]) * (down[2] - up[2])
      < clickDistance * clickDistance

\* the negation of onClick's bounds test against currentViewport
InsideViewport(x, y) ==
    ~ \/ x * Scale < currentViewport.x
      \/ x * Scale > currentViewport.x + currentViewport.width
      \/ y * Scale < currentViewport.y
      \/ y * Scale > currentViewport.y + currentViewport.height

\* onClick(event): the events and timers it raises, in order
onClick(event) ==
    IF brainModeMini THEN << >>
    ELSE IF ~InsideViewport(event.clientX, event.clientY) THEN << >>
    ELSE IF loadStatus # "loaded" THEN << >>
    ELSE IF event.hit = "none" THEN << >>
    ELSE IF brainSectionMap(event.hit) = "undefined" THEN << >>
    ELSE << Logged("dispatchEvent", "brain-section-clicked",
                   [sectionId |-> brainSectionMap(event.hit)]),
            Logged("setTimeout", "scrollToSection",
                   [sectionId |-> brainSectionMap(event.hit)]) >>

\* window 'mousedown' listener
onMouseDown(position) ==
    /\ isDragging' = TRUE
    /\ previousMousePosition' = position
    /\ mouseDownPos' = position
    /\ mouseEvent' = [type |-> "mousedown", clientX |-> position[1],
                      clientY |-> position[2], hit |-> "none"]
    /\ dispatched' = << >>
    /\ UNCHANGED <<scrollVars, currentViewport, currentActiveSection, material, netVars,
                   inputEvents, frames>>
    /\ UNCHANGED <<rotationVelocity, dragRotation, hoveredObject, isHoveringMiniBrain,
                   wheelVars, settingsVars, browserVars>>

\* window 'mouseup' listener, with the onClick it may call
onMouseUp(position, hit) ==
    LET event == [type |-> "mouseup", clientX |-> position[1], clientY |-> position[2],
                  hit |-> hit]
    IN  /\ isDragging' = FALSE
        /\ mouseEvent' = event
        /\ dispatched' = IF IsClick(mouseDownPos, position)
                         THEN << Logged("call", "onClick", << >>) >> \o onClick(event)
                         ELSE << >>
        /\ UNCHANGED <<scrollVars, currentViewport, mouseDownPos, currentActiveSection,
                       material, netVars, inputEvents, frames>>
        /\ UNCHANGED <<dragVars, wheelVars, settingsVars, browserVars>>

\* highlightAllBrainRegions(true): the material every region mesh gets
AllRegionsMaterial(brainOpacity) ==
    [opacity |-> Min(brainOpacity + 35, 80), color |-> "default", emissive |-> "default",
     emissiveIntensity |-> 3]

\* onMouseMove, "Smart Hover Logic": the material of the region under the pointer
HoverMaterial(brainOpacity, sectionId) ==
    [opacity |-> Min(brainOpacity + 30, 80), color |-> highlightColor(sectionId),
     emissive |-> highlightColor(sectionId), emissiveIntensity |-> 4]

\* const rotationSpeed = 0.005 in onMouseMove: one pixel of drag, in the unit of
\* rotationVelocity and dragRotation
PixelRotation == 100

\* if (isDragging && brainPivot) in onMouseMove
DragMoves(position) == isDragging /\ loadStatus = "loaded"

\* window 'mousemove' listener: the hover of the docked brain, the drag rotation,
\* and the hover of a region under the pointer
onMouseMove(position, hit) ==
    LET inside == InsideViewport(position[1], position[2])
        brainOpacity == simulationParams.brainOpacity
        hover(name) == [type |-> "dispatchEvent", text |-> "brain-region-hover",
                        arg |-> [regionName |-> name, active |-> TRUE]]
        leave(name) == [type |-> "dispatchEvent", text |-> "brain-region-hover",
                        arg |-> [regionName |-> name, active |-> FALSE]]
        cleared == IF hoveredObject = "null" THEN material
                   ELSE [material EXCEPT ![hoveredObject] = BaseMaterial(brainOpacity)]
        raycast == ~brainModeMini /\ ~DragMoves(position) /\ brainGroup # "none" /\ inside
    IN  /\ moves' = moves + 1
        /\ lastRaycast' = IF raycast THEN [cast |-> TRUE, at |-> clock] ELSE lastRaycast
        /\ mouseEvent' = [type |-> "mousemove", clientX |-> position[1],
                          clientY |-> position[2], hit |-> hit]
        /\ UNCHANGED <<scrollVars, currentViewport, mouseDownPos, isDragging,
                       currentActiveSection, netVars, wheelVars, settingsVars, inputEvents,
                       frames, clock, intersecting>>
        /\ IF brainModeMini
           THEN /\ isHoveringMiniBrain' = inside
                /\ material' =
                     IF brainGroup = "none" \/ inside = isHoveringMiniBrain THEN material
                     ELSE IF inside
                          THEN [n \in DOMAIN material |-> AllRegionsMaterial(brainOpacity)]
                          ELSE updateActiveSectionHighlight(currentActiveSection, TRUE)[2]
                /\ dispatched' = << >>
                /\ UNCHANGED <<previousMousePosition, rotationVelocity, dragRotation,
                               hoveredObject>>
           ELSE IF DragMoves(position)
           THEN LET deltaMove == [x |-> position[1] - previousMousePosition[1],
                                  y |-> position[2] - previousMousePosition[2]]
                IN  /\ dragRotation' = [x |-> dragRotation.x + deltaMove.y * PixelRotation,
                                        y |-> dragRotation.y + deltaMove.x * PixelRotation]
                    /\ rotationVelocity' = [x |-> deltaMove.x * PixelRotation,
                                            y |-> deltaMove.y * PixelRotation]
                    /\ previousMousePosition' = position
                    /\ dispatched' = << >>
                    /\ UNCHANGED <<material, hoveredObject, isHoveringMiniBrain>>
           ELSE IF brainGroup = "none"
           THEN /\ dispatched' = << >>
                /\ UNCHANGED <<material, dragVars>>
           ELSE IF ~inside
           THEN /\ material' = IF hoveredObject = "null" THEN material
                               ELSE [material EXCEPT ![hoveredObject].opacity = brainOpacity]
                /\ hoveredObject' = "null"
                /\ dispatched' = << >>
                /\ UNCHANGED <<previousMousePosition, rotationVelocity, dragRotation,
                               isHoveringMiniBrain>>
           ELSE IF hit # "none"
           THEN /\ hoveredObject' = hit
                /\ material' = IF hoveredObject = hit THEN material
                               ELSE [cleared EXCEPT
                                       ![hit] = HoverMaterial(brainOpacity, brainSectionMap(hit))]
                /\ dispatched' = IF hoveredObject # hit /\ brainSectionMap(hit) # "undefined"
                                 THEN << hover(hit) >> ELSE << >>
                /\ UNCHANGED <<previousMousePosition, rotationVelocity, dragRotation,
                               isHoveringMiniBrain>>
           ELSE /\ hoveredObject' = "null"
                /\ material' = cleared
                /\ dispatched' = IF hoveredObject = "null" THEN << >>
                                 ELSE << leave(hoveredObject) >>
                /\ UNCHANGED <<previousMousePosition, rotationVelocity, dragRotation,
                               isHoveringMiniBrain>>

\* pointer positions a 'mousemove' is delivered at
MovePositions == {<<120, 100>>, <<1600, 100>>}

NextPointer ==
    \/ \E group \in BrainModels : LoadModel(group)
    \/ LoadError
    \/ \E position \in PointerPositions : onMouseDown(position)
    \/ \E position \in MovePositions, hit \in RayHits :
          moves < MaxMoves /\ onMouseMove(position, hit)
    \/ \E position \in PointerPositions, hit \in RayHits : onMouseUp(position, hit)

InitPointer == \E y \in PointerScrollYs : InitPage(<<1920, 1080, 1080>>, y, DefaultParams)

\* the page at rest at one scroll offset: pointer gestures on the brain
SpecPointer == InitPointer /\ [][NextPointer]_vars

\* windows whose docked square is studied: a wide, short one whose height is the
\* docked side, and a full-HD one
DockLayouts == { <<1600, 400, 400>>, <<1920, 1080, 1080>> }

\* the top of the page and past the hero
DockScrollYs == {0, 2000}

NextDock ==
    \/ AnimateBrainFrame
    \/ \E y \in DockScrollYs : ScrollEvent(y)
    \/ \E layout \in DockLayouts : ResizeEvent(layout)

InitDock == \E layout \in DockLayouts, y \in DockScrollYs : InitPage(layout, y, DefaultParams)

\* the transition between the full window and the docked square
SpecDock == InitDock /\ [][NextDock]_vars

\* scroll offsets of a page load: the top, a little below it, past the hero
LoadScrollYs == {0, 50, 2000}

NextLoad ==
    \/ AnimateBrainFrame
    \/ ScrollEvent(2000)
    \/ ResizeEvent(<<1200, 800, 1000>>)
    \/ onMouseDown(<<100, 100>>)
    \/ onMouseUp(<<100, 100>>, "none")

InitLoad == \E y \in LoadScrollYs : InitPage(<<1920, 1080, 1080>>, y, DefaultParams)

\* the page loaded at any scroll offset, then scrolled, resized and clicked
SpecLoad == InitLoad /\ [][NextLoad]_vars

-----------------------------------------------------------------------------
(* Pointer gestures: claims C4, C5 *)

Raised(text) == {k \in 1..Len(dispatched) : dispatched[k].text = text}

\* the last handler was a mouseup that ended a click inside the current viewport
\* rectangle on a region with a section mapping
ClickedMappedRegion ==
    /\ mouseEvent.type = "mouseup"
    /\ (mouseDownPos[1] - mouseEvent.clientX) * (mouseDownPos[1] - mouseEvent.clientX)
         + (mouseDownPos[2] - mouseEvent.clientY) * (mouseDownPos[2] - mouseEvent.clientY) < 25
    /\ InsideViewport(mouseEvent.clientX, mouseEvent.clientY)
    /\ brainSectionMap(mouseEvent.hit) # "undefined"

\* C4: a click inside the current viewport rectangle on a region with a section
\* mapping raises exactly one brain-section-clicked carrying the mapped section
\* id in NAVIGATOR mode; in RETURN_BUTTON mode it raises no
\* brain-section-clicked and exactly one mini-brain-clicked.
C4_ClickRaisesOneEventPerMode ==
    ClickedMappedRegion =>
       IF brainModeMini
       THEN /\ Raised("brain-section-clicked") = {}
            /\ Cardinality(Raised("mini-brain-clicked")) = 1
       ELSE /\ Cardinality(Raised("brain-section-clicked")) = 1
            /\ \A k \in Raised("brain-section-clicked") :
                  dispatched[k].arg.sectionId = brainSectionMap(mouseEvent.hit)
            /\ Raised("mini-brain-clicked") = {}

\* the NAVIGATOR half of C4, and the part of its RETURN_BUTTON half that the
\* handlers keep: no event at all is raised in mini mode
C4_NavigatorClickRaisesOneEvent ==
    ClickedMappedRegion =>
       IF brainModeMini
       THEN Len(dispatched) = 1
       ELSE /\ Cardinality(Raised("brain-section-clicked")) = 1
            /\ \A k \in Raised("brain-section-clicked") :
                  dispatched[k].arg.sectionId = brainSectionMap(mouseEvent.hit)
            /\ Raised("mini-brain-clicked") = {}

\* a click on a mapped region inside the mini viewport, in RETURN_BUTTON mode
C4_WitnessMini == ClickedMappedRegion /\ brainModeMini

\* a click on a mapped region in NAVIGATOR mode
C4_WitnessNavigator == ClickedMappedRegion /\ ~brainModeMini

\* C5: onMouseUp calls onClick iff the Euclidean distance between the
\* pointer-down and the pointer-up position is below 5 px (its square below 25).
C5_ClickIffCloserThanFive ==
    mouseEvent.type = "mouseup" =>
       LET dx == mouseDownPos[1] - mouseEvent.clientX
           dy == mouseDownPos[2] - mouseEvent.clientY
       IN  /\ Raised("onClick") # {} <=> dx * dx + dy * dy < 25
           /\ Cardinality(Raised("onClick")) <= 1
           /\ ~isDragging

\* down at (100,100), up at (102,101): a click
C5_Witness ==
    /\ mouseEvent.type = "mouseup"
    /\ mouseDownPos = <<100, 100>>
    /\ mouseEvent.clientX = 102 /\ mouseEvent.clientY = 101
    /\ Raised("onClick") # {}

\* down at (100,100), up at (120,100): a drag
C5_WitnessDrag ==
    /\ mouseEvent.type = "mouseup"
    /\ mouseDownPos = <<100, 100>>
    /\ mouseEvent.clientX = 120 /\ mouseEvent.clientY = 100
    /\ dispatched = << >>

\* down at (100,100), up at (103,104): exactly 5 px, a drag
C5_WitnessAtThreshold ==
    /\ mouseEvent.type = "mouseup"
    /\ mouseDownPos = <<100, 100>>
    /\ mouseEvent.clientX = 103 /\ mouseEvent.clientY = 104
    /\ dispatched = << >>

-----------------------------------------------------------------------------
(* Network simulation: claims C6, C7, C8, C10 *)

IsNeighbor(nds, a, b) == \E k \in 1..Len(nds[a].neighbors) : nds[a].neighbors[k] = b

\* C6: every non-empty signal slot has pathStart at the position of some node s
\* of the current graph and pathEnd at the position of node targetNodeIdx, and
\* targetNodeIdx is a neighbour of s in the current graph.
C6_SignalsOnCurrentEdges ==
    \A i \in 1..Len(signals) :
       signals[i] # Empty =>
          /\ signals[i].targetNodeIdx \in 1..Len(nodes)
          /\ signals[i].pathEnd = nodes[signals[i].targetNodeIdx].position
          /\ \E s \in 1..Len(nodes) :
                /\ signals[i].pathStart = nodes[s].position
                /\ IsNeighbor(nodes, s, signals[i].targetNodeIdx)

\* a signal travelling on the graph that a rebuild made after the first one
C6_Witness ==
    /\ loadStatus = "loaded"
    /\ inputEvents > 0
    /\ \E k \in 1..Len(dispatched) : dispatched[k].text = "Rebuilding neural network..."
    /\ \E i \in 1..Len(signals) : signals[i] # Empty

\* C7: for every pair of distinct nodes A, B: A is a neighbour of B iff B is a
\* neighbour of A iff their distance is below connectionDistance; no node is
\* its own neighbour and no neighbour list holds an index twice.
C7_NeighborsSymmetricWithinDistance ==
    /\ \A a \in 1..Len(nodes), b \in 1..Len(nodes) :
          a # b =>
             /\ IsNeighbor(nodes, a, b) <=> IsNeighbor(nodes, b, a)
             /\ IsNeighbor(nodes, a, b) <=>
                  CloserThan(nodes[a].position, nodes[b].position,
                             simulationParams.connectionDistance)
    /\ \A a \in 1..Len(nodes) :
          /\ ~IsNeighbor(nodes, a, a)
          /\ \A k \in 1..Len(nodes[a].neighbors), l \in 1..Len(nodes[a].neighbors) :
                nodes[a].neighbors[k] = nodes[a].neighbors[l] => k = l

\* a built graph with a connected pair and a pair exactly connectionDistance apart
C7_Witness ==
    /\ loadStatus = "loaded"
    /\ \E a \in 1..Len(nodes), b \in 1..Len(nodes) : a # b /\ IsNeighbor(nodes, a, b)
    /\ \E a \in 1..Len(nodes), b \in 1..Len(nodes) :
          /\ a # b
          /\ ~IsNeighbor(nodes, a, b)
          /\ DistanceSq(nodes[a].position, nodes[b].position)
               = simulationParams.connectionDistance * simulationParams.connectionDistance

\* C8: when an animation frame brings a signal's progress to 1 or more and the
\* node n at its targetNodeIdx has neighbours, then after the frame pathStart is
\* the position of n, pathEnd the position of a neighbour m of n,
\* targetNodeIdx = m and progress = 0.
C8_ArrivalStep ==
    \A i \in 1..Len(signals) :
       (/\ i <= simulationParams.signalCount
        /\ signals[i] # Empty
        /\ signals[i].progress + signals[i].speed * delta >= ProgressOne
        /\ Len(nodes[signals[i].targetNodeIdx].neighbors) > 0)
       => /\ signals'[i].pathStart = nodes[signals[i].targetNodeIdx].position
          /\ IsNeighbor(nodes, signals[i].targetNodeIdx, signals'[i].targetNodeIdx)
          /\ signals'[i].pathEnd = nodes[signals'[i].targetNodeIdx].position
          /\ signals'[i].progress = 0

C8_ArrivalContinuesFromNode == [][AnimateFrame => C8_ArrivalStep]_vars

\* a frame has just made a signal arrive: only an arrival leaves progress at 0
\* after a frame
C8_Witness ==
    /\ loadStatus = "loaded"
    /\ dispatched = << >>
    /\ \E i \in 1..Len(signals) :
          /\ signals[i] # Empty
          /\ signals[i].progress = 0
          /\ signals[i].pathStart # signals[i].pathEnd

\* the argument and the outcome of the updateSimulationParams call a step made
LastUpdateParams == dispatched'[1].arg
LastUpdateRebuilt ==
    \E k \in 1..Len(dispatched') : dispatched'[k].text = "Rebuilding neural network..."

\* C10: updateSimulationParams(p) rebuilds the network iff the model is loaded
\* and p holds one of nodeCount, minNodeDistance, connectionDistance,
\* signalCount; a rebuilt network starts its signals at progress 0; without a
\* rebuild (so for every p of cosmetic keys only) the nodes, their neighbour
\* lists, the number of signal slots and each signal's pathStart, pathEnd,
\* targetNodeIdx and progress stay as they were.
C10_UpdateStep ==
    inputEvents' # inputEvents =>
       LET hasStructuralKey ==
             DOMAIN LastUpdateParams
               \cap {"nodeCount", "minNodeDistance", "connectionDistance", "signalCount"} # {}
       IN  /\ LastUpdateRebuilt <=> (loadStatus = "loaded" /\ hasStructuralKey)
           /\ LastUpdateRebuilt =>
                \A i \in 1..Len(signals') : signals'[i] # Empty => signals'[i].progress = 0
           /\ ~hasStructuralKey =>
                /\ nodes' = nodes
                /\ Len(signals') = Len(signals)
                /\ \A i \in 1..Len(signals) :
                      IF signals[i] = Empty THEN signals'[i] = Empty
                      ELSE /\ signals'[i] # Empty
                           /\ signals'[i].pathStart = signals[i].pathStart
                           /\ signals'[i].pathEnd = signals[i].pathEnd
                           /\ signals'[i].targetNodeIdx = signals[i].targetNodeIdx
                           /\ signals'[i].progress = signals[i].progress

C10_RebuildIffStructural == [][C10_UpdateStep]_vars

\* an update of cosmetic keys only has reached a network with a signal in flight
C10_Witness ==
    /\ loadStatus = "loaded"
    /\ Len(dispatched) = 1
    /\ dispatched[1].text = "Updating simulation params:"
    /\ DOMAIN dispatched[1].arg = {"signalSpeed", "brainOpacity"}
    /\ \E i \in 1..Len(signals) :
          /\ signals[i] # Empty
          /\ signals[i].progress > 0
          /\ signals[i].speed = 600

\* an update holding a structural and a cosmetic key has rebuilt the network
C10_WitnessRebuilt ==
    /\ loadStatus = "loaded"
    /\ Len(dispatched) >= 2
    /\ DOMAIN dispatched[1].arg = {"signalSpeed", "nodeCount"}
    /\ dispatched[2].text = "Rebuilding neural network..."
    /\ Len(nodes) > 0

\* a structural update before the model is loaded rebuilds nothing
C10_WitnessNotLoaded ==
    /\ loadStatus # "loaded"
    /\ Len(dispatched) = 2
    /\ dispatched[2].text = "Brain group not ready yet."

-----------------------------------------------------------------------------
(* Network build: claims C11, C16, C20 *)

\* C11: a node whose sampling loop ended with a valid candidate is at least
\* minNodeDistance from every node accepted before it; so two such nodes are at
\* least minNodeDistance apart.
C11_ValidNodesKeepMinDistance ==
    \A b \in 1..Len(nodes) :
       nodes[b].validPosition =>
          \A a \in 1..(b - 1) :
             DistanceSq(nodes[a].position, nodes[b].position)
               >= simulationParams.minNodeDistance * simulationParams.minNodeDistance

\* a build with a node accepted as valid exactly minNodeDistance from an earlier
\* one, after a node that fell through with a rejected sample
C11_Witness ==
    /\ loadStatus = "loaded"
    /\ \E a \in 1..Len(nodes), b \in 1..Len(nodes) :
          /\ a < b
          /\ nodes[b].validPosition
          /\ DistanceSq(nodes[a].position, nodes[b].position)
               = simulationParams.minNodeDistance * simulationParams.minNodeDistance
    /\ \E c \in 1..Len(nodes) : ~nodes[c].validPosition

\* the sum over the meshes from m on of round(nodeCount * area / totalArea)
RECURSIVE RoundedShares(_, _, _)
RoundedShares(meshes, m, nodeCount) ==
    IF m > Len(meshes) THEN 0
    ELSE RoundDiv(nodeCount * meshes[m].area, TotalArea(meshes, 1))
           + RoundedShares(meshes, m + 1, nodeCount)

BuiltFromMeshes == loadStatus = "loaded" /\ Len(brainGroup) > 0

\* C16 as claimed: after a build over meshes of positive total area the number
\* of nodes equals nodeCount exactly.
C16_NodeCountExact ==
    BuiltFromMeshes => Len(nodes) = simulationParams.nodeCount

\* C16: after a build the number of nodes is the sum over the meshes of
\* round(nodeCount * area / totalArea), whatever number of samples was
\* rejected; for a single mesh that is nodeCount.
C16_NodeCountIsSumOfRoundedShares ==
    BuiltFromMeshes =>
       /\ Len(nodes) = RoundedShares(brainGroup, 1, simulationParams.nodeCount)
       /\ Len(brainGroup) = 1 => Len(nodes) = simulationParams.nodeCount

\* two meshes whose rounded shares add up to more than nodeCount, with a node
\* that was accepted after its samples were all rejected
C16_Witness ==
    /\ BuiltFromMeshes
    /\ Len(nodes) > simulationParams.nodeCount
    /\ \E c \in 1..Len(nodes) : ~nodes[c].validPosition

HasEdges == \E a \in 1..Len(nodes) : Len(nodes[a].neighbors) > 0
HasIsolatedNode == \E a \in 1..Len(nodes) : Len(nodes[a].neighbors) = 0

\* a non-empty slot starts at a node that has a neighbour
StartsAtConnectedNode(sig) ==
    \E a \in 1..Len(nodes) :
       /\ nodes[a].position = sig.pathStart
       /\ Len(nodes[a].neighbors) > 0

C20_WitnessAllFilled ==
    /\ BuiltFromMeshes
    /\ ~HasIsolatedNode
    /\ Len(signals) = 2
    /\ \A i \in 1..Len(signals) : signals[i] # Empty

-----------------------------------------------------------------------------
(* Network drawables and GPU resources: claims C18, C19 *)

\* the positions in the last handler's calls of a call on a drawable
CallsOn(text, name) ==
    {k \in 1..Len(dispatched) : dispatched[k].text = text /\ dispatched[k].arg = name}

AllDrawables == {"nodeParticles", "connectionLines", "signalParticles"}

\* C18 as claimed: in a rebuild, each old drawable is removed and disposed only
\* after its replacement was created and attached, and a rebuild never leaves the
\* model without network drawables.
C18_DisposedAfterReplacement ==
    \A name \in AllDrawables :
       \A j \in CallsOn("group.remove", name) \cup CallsOn("geometry.dispose", name)
                  \cup CallsOn("material.dispose", name) :
          /\ \E i \in CallsOn("brainGroup.add", name) : i < j
          /\ drawables # {}

\* C18: a rebuild removes and disposes the old drawables first and creates and
\* attaches their replacements afterwards, all inside the one call of
\* generateNeuralNetwork; when a handler has returned, a loaded model with a
\* mesh has all three drawables, and one without a mesh has none.
C18_DisposedBeforeReplacementInOneCall ==
    /\ \A name \in AllDrawables, other \in AllDrawables :
          \A j \in CallsOn("group.remove", name) \cup CallsOn("geometry.dispose", name)
                     \cup CallsOn("material.dispose", name) :
             /\ CallsOn("brainGroup.add", other) # {}
             /\ \A i \in CallsOn("brainGroup.add", other) : j < i
    /\ BuiltFromMeshes => drawables = AllDrawables
    /\ ~BuiltFromMeshes => drawables = {}

\* a rebuild of an existing network has just returned
C18_Witness ==
    /\ BuiltFromMeshes
    /\ \E k \in 1..Len(dispatched) : dispatched[k].text = "Rebuilding neural network..."
    /\ \A name \in AllDrawables :
          CallsOn("geometry.dispose", name) # {} /\ CallsOn("brainGroup.add", name) # {}

\* C19: the live GPU resources of the simulation never exceed what one build
\* allocates: a geometry and a material for each drawable and one orb texture.
C19_GpuResourcesBounded ==
    /\ gpu.geometries <= 3
    /\ gpu.materials <= 3
    /\ gpu.textures <= 1

\* the part of C19 that the dispose calls keep: geometries and materials
C19_GeometriesAndMaterialsBounded ==
    /\ gpu.geometries = Cardinality(drawables)
    /\ gpu.materials = Cardinality(drawables)

\* a rebuild has left the orb texture of the build before it alive
C19_WitnessLeakedTexture ==
    /\ gpu.textures = 2
    /\ gpu.geometries = 3

-----------------------------------------------------------------------------
(* Pointer events outside the viewport rectangle: claim C15 *)

\* the last handler received a mouse event outside the current viewport rectangle
OutsideEvent ==
    mouseEvent.type # "none" /\ ~InsideViewport(mouseEvent.clientX, mouseEvent.clientY)

\* C15 as claimed: a pointer event (down, move, up) outside the current viewport
\* rectangle raises no click, navigate or hover event, changes no highlight,
\* neither starts nor continues a drag, and changes neither the pivot rotation
\* nor rotationVelocity.
C15_OutsideEventChangesNothing ==
    [][OutsideEvent' =>
         /\ \A k \in 1..Len(dispatched') : dispatched'[k].type # "dispatchEvent"
         /\ UNCHANGED <<material, hoveredObject, isHoveringMiniBrain, currentActiveSection>>
         /\ UNCHANGED <<isDragging, previousMousePosition, mouseDownPos>>
         /\ UNCHANGED <<dragRotation, rotationVelocity>>]_vars

\* the part of C15 that the bounds tests of onClick and onMouseMove keep: an
\* event outside the rectangle raises no window event
C15_OutsideEventRaisesNoEvent ==
    OutsideEvent => \A k \in 1..Len(dispatched) : dispatched[k].type # "dispatchEvent"

\* a mouse-down outside the rectangle has started a drag
C15_WitnessDragStartedOutside ==
    /\ OutsideEvent
    /\ mouseEvent.type = "mousedown"
    /\ isDragging

\* a mouse-move outside the rectangle has turned the pivot
C15_WitnessRotatedOutside ==
    /\ OutsideEvent
    /\ mouseEvent.type = "mousemove"
    /\ dragRotation # [x |-> 0, y |-> 0]
    /\ rotationVelocity # [x |-> 0, y |-> 0]

-----------------------------------------------------------------------------
(* js/main.js: strict section scrolling, the 'wheel' listener *)

\* config.interaction.scrollSensitivity and fastScrollSensitivity
scrollSensitivity == 5
fastScrollSensitivity == 270

\* getScrollTargets(): the hero and the content sections in DOM order, with
\* their layout positions (pixels) in a page of 1080 px sections
ScrollTargets ==
    << [id |-> "hero", offsetTop |-> 0, height |-> 1080],
       [id |-> "section-projects", offsetTop |-> 1080, height |-> 1080],
       [id |-> "section-experience", offsetTop |-> 2160, height |-> 1080] >>

\* wheel deltas: none, noise below the threshold, the threshold, a swipe in
\* either direction, a fast swipe
WheelDeltas == {-10, 0, 3, 5, 10, 300}

\* scroll offsets at which the browser reports a scroll in this engine
SectionScrollYs == {0, 600, 1080, 2160}

\* Math.sign
Sign(x) == IF x > 0 THEN 1 ELSE IF x < 0 THEN -1 ELSE 0

\* the index (from 1) the forEach over the targets keeps: the first target whose
\* getBoundingClientRect().top is closest to 0
CurrentIndex(y) ==
    LET distance(i) == Abs(ScrollTargets[i].offsetTop - y)
    IN  CHOOSE i \in 1..Len(ScrollTargets) :
           \A j \in 1..Len(ScrollTargets) :
              distance(i) < distance(j) \/ (distance(i) = distance(j) /\ i <= j)

\* mutant: a fast swipe steps one section like any other
TargetIndex_NoFastJump(currentIndex, deltaY) ==
    Max(1, Min(currentIndex + Sign(deltaY), Len(ScrollTargets)))

\* targetIndex: the fast jump or the normal step, clamped to the targets
TargetIndex(currentIndex, deltaY) ==
    LET wanted == IF Abs(deltaY) > fastScrollSensitivity
                  THEN (IF Sign(deltaY) > 0 THEN Len(ScrollTargets) ELSE 1)
                  ELSE currentIndex + Sign(deltaY)
    IN  Max(1, Min(wanted, Len(ScrollTargets)))

\* mutant: the lock is not consulted
Triggers_Unlocked(deltaY, last, animating, y) ==
    /\ Abs(deltaY) > last
    /\ Abs(deltaY) >= scrollSensitivity
    /\ Sign(deltaY) # 0
    /\ TargetIndex(CurrentIndex(y), deltaY) # CurrentIndex(y)

\* mutant: the momentum filter is missing
Triggers_NoMomentumFilter(deltaY, last, animating, y) ==
    /\ ~animating
    /\ Abs(deltaY) >= scrollSensitivity
    /\ Sign(deltaY) # 0
    /\ TargetIndex(CurrentIndex(y), deltaY) # CurrentIndex(y)

\* the returns of the wheel listener after "Always update history": the event
\* reaches "Animate" when none of them is taken
Triggers(deltaY, last, animating, y) ==
    /\ ~animating
    /\ Abs(deltaY) > last
    /\ Abs(deltaY) >= scrollSensitivity
    /\ Sign(deltaY) # 0
    /\ TargetIndex(CurrentIndex(y), deltaY) # CurrentIndex(y)

\* window 'wheel' listener
WheelEvent(deltaY) ==
    /\ mouseEvent' = NoMouseEvent
    /\ UNCHANGED <<scrollVars, pointerVars, dragVars, netVars, overlayVars, inputEvents, frames>>
    /\ UNCHANGED <<settingsVars, browserVars>>
    /\ IF noScroll
       THEN /\ dispatched' = << >>
            /\ UNCHANGED <<isAnimating, lastAbsDelta, timers>>
       ELSE /\ lastAbsDelta' = Abs(deltaY)
            /\ IF Triggers(deltaY, lastAbsDelta, isAnimating, scrollY)
               THEN /\ isAnimating' = TRUE
                    /\ timers' = timers + 1
                    /\ dispatched' =
                         << Logged("call", "preventDefault", << >>),
                            Logged("call", "scrollToElement",
                                   ScrollTargets[TargetIndex(CurrentIndex(scrollY), deltaY)].id),
                            Logged("setTimeout", "isAnimating = false", 800) >>
               ELSE /\ dispatched' = << Logged("call", "preventDefault", << >>) >>
                    /\ UNCHANGED <<isAnimating, timers>>

\* detectInitialActiveSection: the content section with the largest visible
\* share of its height, when that share is above one half; else "null"
DetectActiveSection(y, viewportHeight) ==
    LET visibleHeight(i) ==
            Max(0, Min(ScrollTargets[i].offsetTop + ScrollTargets[i].height, y + viewportHeight)
                     - Max(ScrollTargets[i].offsetTop, y))
        content == 2..Len(ScrollTargets)
        best == CHOOSE i \in content :
                   \A j \in content :
                      visibleHeight(i) * ScrollTargets[j].height
                         > visibleHeight(j) * ScrollTargets[i].height
                      \/ (visibleHeight(i) * ScrollTargets[j].height
                            = visibleHeight(j) * ScrollTargets[i].height /\ i <= j)
    IN  IF 2 * visibleHeight(best) > ScrollTargets[best].height
        THEN ScrollTargets[best].id ELSE "null"

\* the setTimeout(..., 800) callback of the wheel listener
TimerFires ==
    LET activeSection == DetectActiveSection(scrollY, innerHeight)
        highlighted == updateActiveSectionHighlight(activeSection, brainModeMini)
    IN  /\ timers > 0
        /\ timers' = timers - 1
        /\ isAnimating' = FALSE
        /\ IF activeSection # "null"
           THEN /\ currentActiveSection' = highlighted[1]
                /\ material' = highlighted[2]
           ELSE UNCHANGED <<currentActiveSection, material>>
        /\ dispatched' = << >>
        /\ mouseEvent' = NoMouseEvent
        /\ UNCHANGED <<scrollVars, currentViewport, mouseDownPos, isDragging, dragVars, netVars, settingsVars, browserVars,
                       lastAbsDelta, overlayVars, inputEvents, frames>>

\* mutant: closing leaves the body class in place
OverlayState_KeepsNoScroll(open) ==
    [noScroll |-> TRUE, ariaHidden |-> ~open, containerHidden |-> open]

\* what openOverlay (open) and closeOverlay (not open) set: the aria-hidden
\* attribute of the overlay, the body class 'no-scroll' and the visibility of
\* the brain container
OverlayState(open) ==
    [noScroll |-> open, ariaHidden |-> ~open, containerHidden |-> open]

\* openOverlay(id, type), called by a click on a project, experience or profile
\* card (the content it renders into the overlay is not modelled)
openOverlay ==
    /\ noScroll' = OverlayState(TRUE).noScroll
    /\ ariaHidden' = OverlayState(TRUE).ariaHidden
    /\ containerHidden' = OverlayState(TRUE).containerHidden
    /\ dispatched' = << Logged("call", "openOverlay", << >>) >>
    /\ mouseEvent' = NoMouseEvent
    /\ UNCHANGED <<scrollVars, pointerVars, dragVars, netVars, settingsVars, browserVars, isAnimating, lastAbsDelta,
                   timers, inputEvents, frames>>

\* closeOverlay, also the 'click' listener of the close button
closeOverlay ==
    /\ noScroll' = OverlayState(FALSE).noScroll
    /\ ariaHidden' = OverlayState(FALSE).ariaHidden
    /\ containerHidden' = OverlayState(FALSE).containerHidden
    /\ dispatched' = << Logged("call", "closeOverlay", << >>) >>
    /\ mouseEvent' = NoMouseEvent
    /\ UNCHANGED <<scrollVars, pointerVars, dragVars, netVars, settingsVars, browserVars, isAnimating, lastAbsDelta,
                   timers, inputEvents, frames>>

\* the two document 'keydown' listeners, for the Escape key: the first closes an
\* open overlay, the second then finds it closed
EscapeKey ==
    IF ~ariaHidden THEN closeOverlay
    ELSE /\ dispatched' = << >>
         /\ mouseEvent' = NoMouseEvent
         /\ UNCHANGED <<scrollVars, pointerVars, dragVars, netVars, wheelVars, settingsVars, browserVars, inputEvents,
                        frames>>

NextWheel ==
    \/ \E deltaY \in WheelDeltas : WheelEvent(deltaY)
    \/ TimerFires
    \/ openOverlay
    \/ closeOverlay
    \/ EscapeKey
    \/ \E y \in SectionScrollYs : ScrollEvent(y)

InitWheel == \E y \in {0, 1080} : InitPage(<<1920, 1080, 1080>>, y, DefaultParams)

\* the page under wheel gestures
SpecWheel == InitWheel /\ [][NextWheel]_vars

\* the browser runs every timer that was set
SpecWheelFair == SpecWheel /\ WF_vars(TimerFires)

-----------------------------------------------------------------------------
(* Wheel section scrolling: claims C13, C14 *)

\* the last handler started a section scroll
Triggered ==
    \E k \in 1..Len(dispatched) : dispatched[k].text = "scrollToElement"

\* C13: a wheel event that starts a section scroll sets isAnimating and one
\* 800 ms timer; while isAnimating is set no wheel event starts another scroll
\* and only the timer clears it; isAnimating is never set without a pending
\* timer; and the timer fires, so the lock is always released in the end.
C13_LockHeldUntilTimerFires ==
    /\ [](Triggered => isAnimating)
    /\ [](isAnimating => timers = 1)
    /\ [][isAnimating => /\ ~Triggered'
                         /\ timers' <= timers
                         /\ (~isAnimating' => timers' < timers)]_vars
    /\ (isAnimating ~> ~isAnimating)

\* a wheel event arrived while the lock was held, and was recorded only
C13_Witness ==
    /\ isAnimating
    /\ timers = 1
    /\ dispatched = << Logged("call", "preventDefault", << >>) >>
    /\ lastAbsDelta = 300

\* C14: a wheel event starts a scroll only if no overlay is open, isAnimating is
\* false, |deltaY| exceeds the |deltaY| of the previous handled wheel event, is
\* at least scrollSensitivity, and deltaY is not 0; a decelerating event never
\* starts one; every handled wheel event, also one that arrives while the lock
\* is held, stores its |deltaY| in lastAbsDelta.
C14_TriggerOnlyOnAcceleratingSwipe ==
    [][\A deltaY \in WheelDeltas :
          WheelEvent(deltaY) =>
             /\ Triggered' => /\ ~noScroll
                              /\ ~isAnimating
                              /\ Abs(deltaY) > lastAbsDelta
                              /\ Abs(deltaY) >= scrollSensitivity
                              /\ deltaY # 0
             /\ Abs(deltaY) <= lastAbsDelta => ~Triggered' /\ isAnimating' = isAnimating
             /\ ~noScroll => lastAbsDelta' = Abs(deltaY)
             /\ noScroll => lastAbsDelta' = lastAbsDelta]_vars

\* a swipe of 10 after a quieter event started a section scroll
C14_Witness ==
    /\ Triggered
    /\ isAnimating
    /\ lastAbsDelta = 10

\* a wheel event was recorded while the lock was held, after the swipe of 10
C14_WitnessRecordedWhileLocked ==
    /\ isAnimating
    /\ ~Triggered
    /\ lastAbsDelta = 3

-----------------------------------------------------------------------------
(* The viewport rectangle and the writers of currentProgress: claims C12, C17 *)

\* the docked square of a w x h window: side clamp(0.25 * w, minSize, maxSize),
\* centred offsetX right of the point half a side left of the right edge and
\* offsetY below the point half a side under the top edge (pixels)
DockedSide(w) == Max(minSize, Min(maxSize, w \div 4))
DockedRect(w, h) ==
    [x |-> w - DockedSide(w) + offsetX, y |-> offsetY,
     width |-> DockedSide(w), height |-> DockedSide(w)]
FullRect(w, h) == [x |-> 0, y |-> 0, width |-> w, height |-> h]

\* the six quantities of a rectangle the claim speaks of: x, y, width, height
\* and the far corner
Quantities(rect) ==
    << rect.x, rect.y, rect.width, rect.height, rect.x + rect.width, rect.y + rect.height >>

StrictlyBetween(v, a, b) == (a < v /\ v < b) \/ (b < v /\ v < a)
Between(v, a, b) == (a <= v /\ v <= b) \/ (b <= v /\ v <= a)

\* the rectangle of the last frame is current: a frame has run since the last
\* scroll or resize
FrameDrawn == frames > 0

\* C12 as claimed: the rectangle is the full window at t = 0, the docked square
\* at t = 1, and for 0 < t < 1 each of x, y, width, height and each corner lies
\* strictly between its two extremes.
C12_RectStrictlyBetweenExtremes ==
    LET full == Quantities(FullRect(innerWidth, innerHeight))
        docked == Quantities(DockedRect(innerWidth, innerHeight))
        now == Quantities(currentViewport)
    IN  FrameDrawn =>
          /\ currentProgress = 0 => \A q \in 1..6 : now[q] = full[q] * Scale
          /\ currentProgress = Scale => \A q \in 1..6 : now[q] = docked[q] * Scale
          /\ (0 < currentProgress /\ currentProgress < Scale) =>
                \A q \in 1..6 : StrictlyBetween(now[q], full[q] * Scale, docked[q] * Scale)

\* C12: the rectangle is the full window at t = 0, the docked square at t = 1,
\* and for 0 < t < 1 each of x, y, width, height and each corner lies strictly
\* between its two extremes when they differ and stays at their common value
\* when they are equal.
C12_RectBetweenExtremes ==
    LET full == Quantities(FullRect(innerWidth, innerHeight))
        docked == Quantities(DockedRect(innerWidth, innerHeight))
        now == Quantities(currentViewport)
    IN  FrameDrawn =>
          /\ currentProgress = 0 => \A q \in 1..6 : now[q] = full[q] * Scale
          /\ currentProgress = Scale => \A q \in 1..6 : now[q] = docked[q] * Scale
          /\ (0 < currentProgress /\ currentProgress < Scale) =>
                \A q \in 1..6 :
                   IF full[q] = docked[q] THEN now[q] = full[q] * Scale
                   ELSE StrictlyBetween(now[q], full[q] * Scale, docked[q] * Scale)

\* a frame of the transition in the window whose height is the docked side
C12_Witness ==
    /\ FrameDrawn
    /\ 0 < currentProgress /\ currentProgress < Scale
    /\ innerHeight = DockedSide(innerWidth)
    /\ currentViewport.height = innerHeight * Scale
    /\ currentViewport.width < innerWidth * Scale

\* a frame of the transition in the full-HD window
C12_WitnessAllMoving ==
    /\ FrameDrawn
    /\ 0 < currentProgress /\ currentProgress < Scale
    /\ innerHeight = 1080

\* the page has just been loaded: the first frame has run, and no scroll or
\* resize event has arrived
AtLoad == frames = 1 /\ inputEvents = 0

\* C17 as claimed, for the page load: the load assigns nothing to
\* currentProgress, so the first frame advances it from its declared value 0.
C17_LoadAssignsNothing ==
    AtLoad => currentProgress = advanceProgress(0, targetProgress)

\* C17: currentProgress is assigned by the page load (targetProgress when that
\* is above 0.1, before the first frame), by the per-frame advance and by the
\* resize snap; no scroll event and no click assigns it.
C17_AssignedByLoadFrameAndResize ==
    /\ [](AtLoad => currentProgress = IF targetProgress > Scale \div 10
                                      THEN targetProgress
                                      ELSE advanceProgress(0, targetProgress))
    /\ [][currentProgress' # currentProgress =>
            \/ AnimateBrainFrame
            \/ ResizeEvent(<<innerWidth', innerHeight', heroHeight'>>)]_vars

\* a page loaded past the hero, clicked before anything else happened
C17_Witness ==
    /\ AtLoad
    /\ scrollY = 2000
    /\ currentProgress = Scale
    /\ mouseEvent.type = "mouseup"

\* a page loaded a little below the top: no snap
C17_WitnessNoSnap ==
    /\ AtLoad
    /\ 0 < targetProgress /\ targetProgress <= Scale \div 10
    /\ currentProgress < targetProgress

-----------------------------------------------------------------------------
(* Wheel navigation target: claim C24 *)

\* the section a wheel event of deltaY is to reach from index c (from 0) among n
\* targets: the end or the start for a fast swipe, else one step, clamped
ClaimedTarget(c, n, deltaY) ==
    LET jump == IF deltaY > 0 THEN n - 1 ELSE 0
        step == IF deltaY > 0 THEN c + 1 ELSE IF deltaY < 0 THEN c - 1 ELSE c
        wanted == IF Abs(deltaY) > fastScrollSensitivity THEN jump ELSE step
    IN  IF wanted < 0 THEN 0 ELSE IF wanted > n - 1 THEN n - 1 ELSE wanted

C24_WitnessAtTarget ==
    /\ scrollY = 0
    /\ lastAbsDelta = 10
    /\ ~isAnimating
    /\ timers = 0
    /\ dispatched = << Logged("call", "preventDefault", << >>) >>

-----------------------------------------------------------------------------
(* The overlay and the wheel listener: claim C30 *)

\* C30: the body has the class 'no-scroll' exactly when the overlay is open
\* (aria-hidden 'false'), and exactly then the brain container is hidden; a
\* wheel event that arrives while the overlay is open leaves lastAbsDelta and
\* isAnimating alone and starts no section scroll.
C30_OverlayBlocksWheel ==
    /\ [](noScroll <=> ~ariaHidden)
    /\ [](~ariaHidden <=> containerHidden)
    /\ [][\A deltaY \in WheelDeltas :
             (WheelEvent(deltaY) /\ ~ariaHidden) =>
                /\ UNCHANGED <<lastAbsDelta, isAnimating, timers>>
                /\ ~Triggered']_vars

\* the overlay is open while the lock of a section scroll is held, and the last
\* handler (a wheel event among them) did nothing
C30_Witness ==
    /\ ~ariaHidden
    /\ noScroll
    /\ containerHidden
    /\ isAnimating
    /\ lastAbsDelta = 10
    /\ dispatched = << >>

-----------------------------------------------------------------------------
(* The empty node list: claim C23 *)

\* no slot of the pool holds a signal
PoolEmpty(sigs) == \A i \in 1..Len(sigs) : sigs[i] = Empty

\* a step of animate: in the simulation at rest every other handler loads the
\* model, fails to, or counts a parameter update
FrameStep == loadStatus' = loadStatus /\ inputEvents' = inputEvents

\* a step of updateSimulationParams
UpdateStep == inputEvents' = inputEvents + 1

\* C23: while the node list is empty the signal pool is empty, whatever
\* signalCount is; a frame of animate with an empty node list changes neither
\* list; a call of updateSimulationParams on a model that failed to load or has
\* no mesh leaves both lists empty, and one that leaves the node list empty
\* leaves the pool empty; once the load-error callback has run, both lists stay
\* empty.
C23_EmptyNodeListIsNoOp ==
    /\ [](Len(nodes) = 0 => PoolEmpty(signals))
    /\ [](loadStatus = "failed" => nodes = << >> /\ signals = << >>)
    /\ [][(FrameStep /\ Len(nodes) = 0) => UNCHANGED <<nodes, signals>>]_vars
    /\ [][(UpdateStep /\ (loadStatus # "loaded" \/ Len(brainGroup) = 0))
             => nodes' = << >> /\ signals' = << >>]_vars
    /\ [][(UpdateStep /\ Len(nodes) = 0 /\ Len(nodes') = 0) => PoolEmpty(signals')]_vars

\* a build over meshes that produced no sample, with a pool of one slot
C23_Witness ==
    /\ BuiltFromMeshes
    /\ Len(nodes) = 0
    /\ simulationParams.signalCount > 0
    /\ Len(signals) > 0

\* the load failed and a structural parameter was then updated
C23_WitnessAfterLoadError ==
    /\ loadStatus = "failed"
    /\ inputEvents > 0
    /\ \E k \in 1..Len(dispatched) : dispatched[k].text = "Brain group not ready yet."


-----------------------------------------------------------------------------
(* No dead end: claim C25 *)

\* the step rebuilt the network (updateSimulationParams with a structural key)
Rebuilt ==
    \E k \in 1..Len(dispatched') : dispatched'[k].text = "Rebuilding neural network..."

\* the node a signal travels to has a neighbour
TargetHasNeighbor(sig) == Len(nodes[sig.targetNodeIdx].neighbors) > 0

\* the signals of a step that does not rebuild: none is dropped, and each is on
\* the path it was on or on a path that leaves the node it travelled to
SignalsKept ==
    /\ Len(signals') = Len(signals)
    /\ \A i \in 1..Len(signals) :
         signals[i] # Empty =>
           /\ signals'[i] # Empty
           /\ \/ /\ signals'[i].pathStart = signals[i].pathStart
                 /\ signals'[i].pathEnd = signals[i].pathEnd
                 /\ signals'[i].targetNodeIdx = signals[i].targetNodeIdx
              \/ /\ signals'[i].pathStart = nodes[signals[i].targetNodeIdx].position
                 /\ IsNeighbor(nodes, signals[i].targetNodeIdx, signals'[i].targetNodeIdx)

\* C25: in every reachable state the node at the targetNodeIdx of every signal
\* has at least one neighbour, so the "dead end, respawn" branch of animate is
\* never taken: a frame, and an update that does not rebuild, drops no signal
\* and respawns none (a signal stays on its path or continues from the node it
\* reached to a neighbour of that node).
C25_TargetNodeHasNeighbor ==
    /\ [](\A i \in 1..Len(signals) : signals[i] # Empty => TargetHasNeighbor(signals[i]))
    /\ [][(FrameStep \/ (UpdateStep /\ ~Rebuilt)) => SignalsKept]_vars

\* after a frame a signal is under way to a node whose only neighbour is the
\* node it comes from
C25_Witness ==
    /\ loadStatus = "loaded"
    /\ dispatched = << >>
    /\ \E i \in 1..Len(signals) :
         /\ signals[i] # Empty
         /\ signals[i].progress > 0
         /\ Len(nodes[signals[i].targetNodeIdx].neighbors) = 1


-----------------------------------------------------------------------------
(* js/main.js: the settings panel *)

\* 'input' events of the sliders: the key of the slider and e.target.value
\* (parseFloat of a slider's value is the number the slider shows; the values
\* are in the units of simulationParams)
SliderEvents ==
    { <<"nodeCount", 2>>, <<"connectionDistance", 6>>, <<"signalCount", 2>>,
      <<"brainOpacity", 60>>, <<"signalSpeed", 600>>, <<"menuGap", 12>> }

\* the 'input' listener of the slider of key: menuGap sets a CSS variable,
\* signalSpeed is applied at once, every other key goes through debouncedUpdate,
\* which clears the pending timeout and sets a new one
SliderInput(key, value) ==
    /\ inputs' = [inputs EXCEPT ![key] = [moved |-> TRUE, value |-> value]]
    /\ IF key = "menuGap" \/ key # "signalSpeed"
       THEN /\ debounceTimeout' = IF key = "menuGap" THEN debounceTimeout
                                  ELSE [pending |-> TRUE, key |-> key, value |-> value]
            /\ dispatched' = IF key = "menuGap"
                             THEN << Logged("call", "setProperty", <<"--menu-top", value>>) >>
                             ELSE << Logged("call", "clearTimeout", << >>),
                                     Logged("setTimeout", "debouncedUpdate", 300) >>
            /\ mouseEvent' = NoMouseEvent
            /\ UNCHANGED <<scrollVars, pointerVars, dragVars, wheelVars, netVars, browserVars,
                           inputEvents, frames>>
       ELSE /\ updateSimulationParams(key :> value)
            /\ UNCHANGED debounceTimeout

\* the timeout of debounce runs: the callback of debouncedUpdate with the
\* arguments of the last call (its console line is left out)
DebounceFires ==
    /\ debounceTimeout.pending
    /\ debounceTimeout' = NoTimeout
    /\ updateSimulationParams(debounceTimeout.key :> debounceTimeout.value)
    /\ UNCHANGED inputs

NextSettings ==
    \/ \E group \in BrainModels : LoadModel(group)
    \/ \E e \in SliderEvents : SliderInput(e[1], e[2])
    \/ DebounceFires

InitSettings == InitPage(<<1920, 1080, 1080>>, 0, DefaultParams)

\* the page at rest at the top with the settings panel in use
SpecSettings == InitSettings /\ [][NextSettings]_vars

-----------------------------------------------------------------------------
(* The debounced sliders: claim C28 *)

\* the sliders whose value goes to updateSimulationParams
SimulationKeys == SliderKeys \ {"menuGap"}

\* C28: once the inputs have stopped for 300 ms (no timeout of debouncedUpdate
\* is pending), simulationParams[k] is the last value entered for every key k
\* whose slider was moved, also when different keys were changed within 300 ms
\* of each other.
C28_EverySliderChangeApplied ==
    ~debounceTimeout.pending =>
       \A k \in SimulationKeys : inputs[k].moved => simulationParams[k] = inputs[k].value

\* what holds: the call that is pending, or was the last to run, carries the
\* last value entered for the key that was changed last
C28_LastChangeApplied ==
    [][DebounceFires => simulationParams'[debounceTimeout.key] = inputs[debounceTimeout.key].value]_vars

\* two sliders were moved within 300 ms, the timeout has run, and the first
\* change was never applied
C28_WitnessLostChange ==
    /\ ~debounceTimeout.pending
    /\ inputs["nodeCount"].moved /\ inputs["connectionDistance"].moved
    /\ simulationParams.connectionDistance = inputs["connectionDistance"].value
    /\ simulationParams.nodeCount # inputs["nodeCount"].value


-----------------------------------------------------------------------------
(* js/brain-hero.js, js/main.js: hovering regions, the section observer *)

\* the 'brain-region-hover' event of a region
RegionHover(name, active) ==
    [type |-> "dispatchEvent", text |-> "brain-region-hover",
     arg |-> [regionName |-> name, active |-> active]]

\* mutant: leaving the document raises no event
LeaveEvents_Silent(name) == << >>

\* what the document 'mouseleave' listener dispatches for the hovered region
LeaveEvents(name) == << RegionHover(name, FALSE) >>

\* document 'mouseleave' listener: un-hover the hovered region (its colour is
\* not reset), stop dragging
MouseLeave ==
    /\ material' = IF hoveredObject = "null" THEN material
                   ELSE [material EXCEPT ![hoveredObject] =
                           [@ EXCEPT !.opacity = simulationParams.brainOpacity,
                                     !.emissive = "black", !.emissiveIntensity = 0]]
    /\ dispatched' = IF hoveredObject = "null" THEN << >> ELSE LeaveEvents(hoveredObject)
    /\ hoveredObject' = "null"
    /\ isDragging' = FALSE
    /\ mouseEvent' = [type |-> "mouseleave", clientX |-> 0, clientY |-> 0, hit |-> "none"]
    /\ UNCHANGED <<scrollVars, currentViewport, mouseDownPos, currentActiveSection,
                   previousMousePosition, rotationVelocity, dragRotation,
                   isHoveringMiniBrain, wheelVars, settingsVars, netVars, browserVars,
                   inputEvents, frames>>

\* time that passes between two events (ms)
TickMs == {5, 20}
\* the clock stops here
MaxTime == 40

\* time passes
Tick(ms) ==
    /\ clock + ms <= MaxTime
    /\ clock' = clock + ms
    /\ UNCHANGED <<scrollVars, pointerVars, dragVars, wheelVars, settingsVars, netVars,
                   mouseEvent, dispatched, inputEvents, frames, moves, lastRaycast,
                   intersecting>>

\* { threshold: 0.5 }: at least half of content section i is inside the window
HalfVisible(i, y, viewportHeight) ==
    2 * Max(0, Min(ScrollTargets[i].offsetTop + ScrollTargets[i].height, y + viewportHeight)
                 - Max(ScrollTargets[i].offsetTop, y))
      >= ScrollTargets[i].height

\* the sections the observer reports as intersecting at this scroll offset
Intersecting(y, viewportHeight) ==
    { ScrollTargets[i].id : i \in { j \in 2..Len(ScrollTargets) : HalfVisible(j, y, viewportHeight) } }

\* the sectionObserver callback: the entries are the sections whose
\* intersection changed since the last report, in DOM order; each one that
\* isIntersecting calls updateActiveSectionHighlight(its id)
SectionObserver ==
    LET current == Intersecting(scrollY, innerHeight)
        entered == { i \in 2..Len(ScrollTargets) :
                       ScrollTargets[i].id \in current \ intersecting }
        last == CHOOSE i \in entered : \A j \in entered : j <= i
        highlighted == updateActiveSectionHighlight(ScrollTargets[last].id, brainModeMini)
    IN  /\ current # intersecting
        /\ intersecting' = current
        /\ IF entered = {}
           THEN UNCHANGED <<currentActiveSection, material>>
           ELSE /\ currentActiveSection' = highlighted[1]
                /\ material' = highlighted[2]
        /\ dispatched' = << >>
        /\ mouseEvent' = NoMouseEvent
        /\ UNCHANGED <<scrollVars, currentViewport, mouseDownPos, isDragging, dragVars,
                       wheelVars, settingsVars, netVars, moves, clock, lastRaycast,
                       inputEvents, frames>>

\* 'mousemove' events of one hover gesture
MaxHoverMoves == 2

NextHover ==
    \/ LoadModel(TwoMeshModel)
    \/ \E position \in MovePositions, hit \in RayHits :
          moves < MaxHoverMoves /\ onMouseMove(position, hit)
    \/ MouseLeave
    \/ \E ms \in TickMs : Tick(ms)

InitHover == \E y \in {0, 378} : InitPage(<<1920, 1080, 1080>>, y, DefaultParams)

\* the pointer moving over the regions of the brain in navigator mode
SpecHover == InitHover /\ [][NextHover]_vars

\* scroll offsets: the top, the first content section half in view before the
\* mode switches, the first content section
HighlightScrollYs == {0, 588, 1080}

\* animation frames looked at after each scroll event (the mode switches in
\* the first)
MaxFramesPerScroll == 3

NextHighlight ==
    \/ LoadModel(TwoMeshModel)
    \/ \E y \in HighlightScrollYs : ScrollEvent(y)
    \/ frames < MaxFramesPerScroll /\ AnimateBrainFrame
    \/ SectionObserver
    \/ \E position \in MovePositions, hit \in RayHits :
          moves < MaxMoves /\ onMouseMove(position, hit)

InitHighlight == InitPage(<<1920, 1080, 1080>>, 0, DefaultParams)

\* scrolling between the two modes while the observer reports the sections and
\* the pointer moves
SpecHighlight == InitHighlight /\ [][NextHighlight]_vars


-----------------------------------------------------------------------------
(* Leaving mini mode: claim C21 *)

\* every region mesh is in its base state
AllBase == \A n \in DOMAIN material : material[n] = BaseMaterial(simulationParams.brainOpacity)

\* C21: when an animation frame finds targetProgress below the threshold while
\* the body carries 'brain-mode-mini', the class is removed and in the same
\* frame the active section becomes null and every region is reset to its base
\* state; a frame that finds the page in navigator mode already clears nothing.
C21_LeavingMiniClearsHighlights ==
    [][AnimateBrainFrame =>
         /\ (brainModeMini /\ targetProgress < targetProgressThreshold) =>
               /\ ~brainModeMini'
               /\ currentActiveSection' = "null"
               /\ AllBase'
         /\ ~brainModeMini => UNCHANGED <<currentActiveSection, material>>]_vars

\* the page was scrolled into mini mode, the observer reported the first
\* content section, the page was scrolled back above the threshold and the
\* frame cleared the active section
C21_Witness ==
    /\ loadStatus = "loaded"
    /\ inputEvents = 2 /\ scrollY = 588 /\ frames >= 1
    /\ ~brainModeMini
    /\ "section-projects" \in intersecting
    /\ currentActiveSection = "null"
    /\ AllBase


-----------------------------------------------------------------------------
(* The active section in mini mode: claim C26 *)

\* exactly the regions mapped to section s carry the active highlight, and
\* every other region is in its base state
OnlySectionHighlighted(s) ==
    \A n \in DOMAIN material :
       material[n] = IF brainSectionMap(n) = s
                     THEN ActiveMaterial(simulationParams.brainOpacity, s)
                     ELSE BaseMaterial(simulationParams.brainOpacity)

\* C26: under every interleaving of observer callbacks, scroll events and
\* animation frames, whenever the page is in mini mode, the pointer is not over
\* the mini brain and the active section s is not null, exactly the regions
\* mapped to s are highlighted and all others are in base state.
C26_ActiveSectionHighlightedInMini ==
    (brainModeMini /\ ~isHoveringMiniBrain /\ currentActiveSection # "null")
       => OnlySectionHighlighted(currentActiveSection)

\* what holds: a section that became active while the page was in mini mode is
\* highlighted by the call that made it active
C26_HighlightedByCallInMini ==
    [][(SectionObserver /\ brainModeMini /\ currentActiveSection' # currentActiveSection)
          => OnlySectionHighlighted(currentActiveSection)']_vars

\* the observer reported the section at scroll offset 588, in navigator mode,
\* and a frame after the next scroll event switched to mini mode: the section
\* is active and no region is highlighted
C26_WitnessNotHighlighted ==
    /\ brainModeMini /\ ~isHoveringMiniBrain
    /\ inputEvents = 2 /\ scrollY = 1080
    /\ loadStatus = "loaded"
    /\ currentActiveSection = "section-projects"
    /\ AllBase


-----------------------------------------------------------------------------
(* The hovered region across mode switches: claim C27 *)

\* region name is displayed in the hover highlight
ShownHovered(name) ==
    material[name] = HoverMaterial(simulationParams.brainOpacity, brainSectionMap(name))

\* C27: after any sequence of pointer moves, scroll-driven mode switches and
\* frames, whenever the page is in navigator mode and hoveredObject is a region
\* R, R is displayed in the hover highlight (hoveredObject is never stale).
C27_HoveredRegionIsHighlighted ==
    (~brainModeMini /\ hoveredObject # "null") => ShownHovered(hoveredObject)

\* what holds: the 'mousemove' that makes a region the hovered one leaves it
\* in the hover highlight
C27_HighlightedWhenHoverStarts ==
    [][(hoveredObject' # hoveredObject /\ hoveredObject' # "null")
          => (~brainModeMini' /\ ShownHovered(hoveredObject)')]_vars

\* a region was hovered, the page went to mini mode and back with the pointer
\* at rest and no observer report: the region is still hoveredObject and is in
\* base state
C27_WitnessStaleHover ==
    /\ ~brainModeMini
    /\ hoveredObject = "Brain_Part_06"
    /\ inputEvents = 2 /\ intersecting = {}
    /\ AllBase


-----------------------------------------------------------------------------
(* Un-hovering a region: claim C29 *)

\* config.brainMapping.sections has an entry for the region
Mapped(name) == name # "null" /\ brainSectionMap(name) # "undefined"

\* C29: every time a mapped region R stops being the hovered one (hoveredObject
\* goes from R to null or to another region, whether the pointer moved off the
\* mesh, left the viewport rectangle or left the document), a
\* 'brain-region-hover' event for R with active = false is raised.
C29_UnhoverRaisesEvent ==
    [][(Mapped(hoveredObject) /\ hoveredObject' # hoveredObject)
          => \E k \in 1..Len(dispatched') : dispatched'[k] = RegionHover(hoveredObject, FALSE)]_vars

\* the pointer is outside the viewport rectangle
PointerOutside == ~InsideViewport(mouseEvent'.clientX, mouseEvent'.clientY)

\* what holds: the event is raised when the pointer moves off the mesh inside
\* the rectangle to where the ray hits nothing, and when it leaves the document
C29_UnhoverToNothingRaisesEvent ==
    [][(/\ Mapped(hoveredObject)
        /\ hoveredObject' = "null"
        /\ \/ mouseEvent'.type = "mouseleave"
           \/ mouseEvent'.type = "mousemove" /\ ~PointerOutside)
          => dispatched' = << RegionHover(hoveredObject, FALSE) >>]_vars

\* the pointer went from a hovered mapped region to outside the rectangle: the
\* region is un-hovered and the handler raised nothing
C29_WitnessSilentUnhover ==
    /\ loadStatus = "loaded"
    /\ moves = 2
    /\ mouseEvent.type = "mousemove"
    /\ ~InsideViewport(mouseEvent.clientX, mouseEvent.clientY)
    /\ hoveredObject = "null"
    /\ dispatched = << >>
    /\ material["Brain_Part_06"].color = highlightColor("section-projects")

\* the pointer left the document from a hovered mapped region
C29_WitnessLeftDocument ==
    /\ mouseEvent.type = "mouseleave"
    /\ dispatched = << RegionHover("Brain_Part_06", FALSE) >>


-----------------------------------------------------------------------------
(* The rate of raycasts: claim C22 *)

\* performancePresets.HIGH.raycastThrottle (ms), the shortest of the tiers
raycastThrottle == 16

\* the step is a 'mousemove' that reaches raycaster.intersectObjects
Raycasts ==
    /\ moves' = moves + 1
    /\ ~brainModeMini
    /\ ~DragMoves(<<mouseEvent'.clientX, mouseEvent'.clientY>>)
    /\ brainGroup # "none"
    /\ InsideViewport(mouseEvent'.clientX, mouseEvent'.clientY)

\* C22: the hover raycasts of onMouseMove are rate-limited: at least
\* raycastThrottle ms lie between two consecutive raycasts.
C22_RaycastsRateLimited ==
    [][(Raycasts /\ lastRaycast.cast) => clock - lastRaycast.at >= raycastThrottle]_vars

\* what holds: every 'mousemove' inside the rectangle in navigator mode, with
\* the model loaded and no drag, casts a ray, whatever the time since the last
C22_EveryMoveRaycasts ==
    [][Raycasts => lastRaycast' = [cast |-> TRUE, at |-> clock]]_vars

\* two 'mousemove' events were delivered and the second cast a ray 5 ms after
\* the page was loaded
C22_WitnessSecondRaycast ==
    /\ moves = 2
    /\ lastRaycast = [cast |-> TRUE, at |-> 5]

=============================================================================
